---- MODULE Spec2Model ----
(***************************************************************************)
(* Snapshot fetcher of internal/snapshot (Fetcher.EnsureSnapshot and the   *)
(* functions it calls), as a state machine over the cache directory.       *)
(*                                                                         *)
(* One goroutine's call is a sequence of steps, one per file-system or     *)
(* network operation of the source, so that a crash or another goroutine   *)
(* can fall between any two of them.                                       *)
(*                                                                         *)
(* Environment.  Every call runs in an environment env: "ok" (no           *)
(* operation fails, the context is never cancelled, the server follows     *)
(* HTTP range semantics) or "faulty" (any operation whose error the code   *)
(* reads may fail, the server may answer anything, the process may         *)
(* crash).  The two removals whose result the code discards on an error    *)
(* path (os.RemoveAll of data/, os.Remove before the 416 retry) succeed;   *)
(* the os.Remove of the archive after extraction may fail, since the       *)
(* contract of EnsureSnapshot is stated for that case too.                 *)
(***************************************************************************)
EXTENDS Integers, Sequences, FiniteSets, TLC

\* ---------------------------------------------------------------- bounds
\* Number of bytes of the remote archive.
ArchiveSize == 2
\* Archive GETs one EnsureSnapshot call may issue in the model (the code
\* itself has no bound: downloadFile recurses on every 416).
MaxReq == 3

\* ------------------------------------------------------- program constants
StatusOK == 200
StatusPartialContent == 206
StatusRequestedRangeNotSatisfiable == 416
\* Representatives of "any other status" (the default branch).
OtherStatuses == {404, 503}

Goroutines == {1, 2}
\* Concrete block numbers the server offers.
Blocks == {"100", "200"}
\* cfg.BlockNumber as the caller may give it.
CfgBlocks == Blocks \cup {"latest", ""}

\* The bytes of the remote snapshot.tar.zst.
Resource == [i \in 1..ArchiveSize |-> i]

NoFile == [exists |-> FALSE, bytes |-> <<>>]
File(bs) == [exists |-> TRUE, bytes |-> bs]

NoPath == <<>>
\* filepath.Join(cacheDir, network, client, blockNumber)
snapshotDir(b) == <<"cache", "mainnet", "geth", b>>
\* filepath.Join(snapshotDir, "data")
extractedDir(b) == snapshotDir(b) \o <<"data">>

NoRange == -1
\* Mutant: the Range header is set whatever the size.
RangeHeader_Always(size) == size
\* The Range header downloadFile sets: "bytes=N-" (N) or none (NoRange).
RangeHeader(size) == IF size > 0 THEN size ELSE NoRange

VARIABLES
    \* --- the cache directory, per block
    dirs,         \* snapshotDir exists
    archive,      \* snapshot.tar.zst: NoFile or File(bytes)
    data,         \* data/: "absent", "empty", "partial" or "full"
    marker,       \* .complete exists
    \* --- the goroutines
    sched,        \* the scenario: [goroutines, once, blocks], fixed at start
    called,       \* goroutines that have issued their one call (once)
    pc,           \* position of each goroutine in EnsureSnapshot
    env,          \* environment of the call: "ok" or "faulty"
    cfgBlock,     \* cfg.BlockNumber after the "" -> "latest" default
    blockNumber,  \* the local blockNumber (resolved)
    existingSize, \* downloadFile's existingSize
    resp,         \* resp.StatusCode of the last archive GET
    body,         \* unread part of resp.Body
    fdAppend,     \* out was opened with O_APPEND
    ret,          \* what the call returned: [err, path]
    \* --- history of the call
    reqs,         \* HTTP requests of the call: [latest, archive]
    rangeSent,    \* Range header of the last archive GET
    downloaded,   \* the call wrote archive body bytes to disk
    prev          \* how the last call ended: [id, block, err], err "crash"
                  \* when the process died in it

\* The identifier normalisation, applied to pairs of identifiers.
VARIABLES
    nIds,         \* the two identifiers under comparison: <<id, id>>
    nLatest,      \* the block the server names at .../latest
    nEnsure,      \* entry directory EnsureSnapshot uses for each identifier
    nCached       \* entry directory GetCachedSnapshotPath looks in

norm == <<nIds, nLatest, nEnsure, nCached>>

\* The overlay manager (internal/overlay) and the host it mounts on.
VARIABLES
    \* --- the host: it outlives the process
    lowerDirs,    \* what is at each snapshot path: "dir", "file" or "absent"
    overlayDirs,  \* {BaseDir}/{id} exists, per overlay id
    mountTable,   \* number of overlay mounts on {BaseDir}/{id}/merged
    stateFile,    \* state.json: [kind, mounts]
    clock,        \* the last value time.Now().UnixNano() returned
    \* --- the process
    overlays,     \* m.overlays: container id -> overlay id, or NoMount
    mu,           \* m.mu: the goroutine holding the lock, or 0
    msched,       \* the scenario: the goroutines that call the manager
    mpc,          \* position of each goroutine in its manager call
    menv,         \* environment of the call: "ok" or "faulty"
    mcall,        \* the call: [op, containerID, snapshotPath, first, after,
                  \* conc], first when it is the first call since the
                  \* process started, conc when it and another
                  \* CreateOverlay for the same container were under way
                  \* at the same time
    mount,        \* the mount a call creates or cleans up: its overlay id
    mtodo,        \* container ids a range loop has still to visit
    merr,         \* the error of the last cleanupMount, and lastErr
    mret,         \* what the call returned: [err, mount]
    \* --- history
    restarted,    \* the process restarted and no call was made since
    crashed,      \* the process died at least once
    released      \* container ids whose overlay the last call gave up: a
                  \* CleanupOverlay that returned nil, or the
                  \* RecoverOrphanedMounts of a restarted process

host == <<lowerDirs, overlayDirs, mountTable, stateFile, clock>>
mlocals == <<mcall, mount, mtodo, merr>>
manager ==
    <<host, overlays, mu, msched, mpc, menv, mlocals, mret, restarted, crashed,
      released>>

\* The start options of hivesim (WithClientSnapshot, WithOverlaySnapshot)
\* and the clientSetup they are applied to.
VARIABLES
    clientDef,     \* the ClientDefinition given to WithClientSnapshot
    startOption,   \* what WithClientSnapshot returned, NoOption before
    setupOverlays, \* setup.config.Overlays
    applied        \* history: the option the last apply call applied

options == <<clientDef, startOption, setupOverlays, applied>>

\* The engine client of the gas benchmark (ExecutePayloads) and the warmup
\* phase that drives it (warmup.Execute).
VARIABLES
    entered,      \* the function the simulator called: "Execute",
                  \* "ExecutePayloads", or "" when none was
    wPayload,     \* p: NilPayload or [Calls |-> the calls]
    wCfg,         \* cfg: [Enabled, Iterations]
    ctxDone,      \* ctx is cancelled or past its deadline
    epc,          \* position in Execute and ExecutePayloads
    wIter,        \* the loop variable i of Execute
    wResult,      \* *result of Execute
    wRet,         \* what Execute returned: [returned, err]
    xIdx,         \* the loop variable i of ExecutePayloads
    timings,      \* timings of ExecutePayloads
    xRet,         \* what ExecutePayloads returned: [timings, err]
    \* --- history
    sent,         \* indices ExecutePayloads handed to ExecutePayload, in
                  \* the order of the calls, in the current invocation
    nExec,        \* ExecutePayloads invocations Execute has made
    failedIters,  \* the invocations among them that returned an error
    sawDone       \* the select of Execute found ctx done

engine ==
    <<entered, wPayload, wCfg, ctxDone, epc, wIter, wResult, wRet, xIdx,
      timings, xRet, sent, nExec, failedIters, sawDone>>

\* The SnapshotManager of hivesim and its cache directory.
VARIABLES
    \* --- the cache directory, per entry
    hsDirs,       \* snapshotDir exists
    hsArchive,    \* snapshot.tar.zst exists
    hsData,       \* data/: "absent", "empty" or "full"
    hsMetadata,   \* metadata.json: "absent", "corrupt" or "valid"
    \* --- the call
    hsPc,         \* position in EnsureSnapshotAt
    hsEnv,        \* environment of the call: "ok" or "faulty"
    hsBlock,      \* the argument blockNumber
    hsRet,        \* what the call returned: [err, path]
    \* --- history
    hsReqs,       \* HTTP requests of the call: [archive, metadata]
    hsFetched,    \* entries a call fetched and extracted and returned
                  \* without error for, and that were not removed since
    hsWas         \* hsFetched of the entry when the call began

hsDisk == <<hsDirs, hsArchive, hsData, hsMetadata>>
hivesim ==
    <<hsDisk, hsPc, hsEnv, hsBlock, hsRet, hsReqs, hsFetched, hsWas>>

\* The code on the simulator side.
simulator == <<options, engine, hivesim>>

\* The state of the components other than the fetcher's cache.
elsewhere == <<norm, manager, simulator>>

disk == <<dirs, archive, data, marker>>
caller == <<sched, called>>
locals == <<cfgBlock, blockNumber, existingSize, resp, body, fdAppend>>
hist == <<reqs, rangeSent, downloaded, prev>>
fetcher == <<disk, caller, pc, env, locals, ret, hist>>
vars == <<dirs, archive, data, marker, sched, called, pc, env, cfgBlock,
          blockNumber, existingSize, resp, body, fdAppend, ret, reqs,
          rangeSent, downloaded, prev, elsewhere>>

\* No identifier is under comparison.
NormIdle ==
    /\ nIds = <<>>
    /\ nLatest = <<>>
    /\ nEnsure = <<>>
    /\ nCached = <<>>

\* containerID[:12]
IDPrefixLen == 12
\* Values time.Now().UnixNano() takes in the model.
MaxNano == 2

Rep(c, n) == [i \in 1..n |-> c]
\* Container ids: two that share their first 12 characters, and one that
\* is shorter than 12 characters.
Container_a1 == Rep("a", IDPrefixLen) \o <<"1">>
Container_a2 == Rep("a", IDPrefixLen) \o <<"2">>
Container_short == <<"a", "b", "c">>
ContainerIDs == {Container_a1, Container_a2, Container_short}

\* fmt.Sprintf("%s_%d", containerID[:12], time.Now().UnixNano())
overlayID(containerID, nano) == <<SubSeq(containerID, 1, IDPrefixLen), nano>>
OverlayIDs ==
    {overlayID(c, n) : c \in {d \in ContainerIDs : Len(d) >= IDPrefixLen},
                       n \in 1..MaxNano}
NoMount == <<>>

\* config.SnapshotPath as callers may give it, and what is there.
SnapshotPaths == {"snapshot", "file", "missing"}
LowerKind(p) ==
    CASE p = "snapshot" -> "dir"
      [] p = "file" -> "file"
      [] OTHER -> "absent"

NoState == [kind |-> "absent", mounts |-> [c \in ContainerIDs |-> NoMount]]
\* state.json with a content json.Unmarshal rejects.
Malformed == [kind |-> "malformed", mounts |-> [c \in ContainerIDs |-> NoMount]]
\* json.MarshalIndent(m.overlays) written to state.json.
StateOf(reg) == [kind |-> "json", mounts |-> reg]

NoCall ==
    [op |-> "", containerID |-> <<>>, snapshotPath |-> "", first |-> FALSE,
     after |-> FALSE, conc |-> FALSE]
NoMRet == [err |-> "", mount |-> NoMount]

\* The host before any manager ran on it, and a manager fresh from
\* NewManager, called by the goroutines gs.
ManagerInit(gs) ==
    /\ lowerDirs = [p \in SnapshotPaths |-> LowerKind(p)]
    /\ overlayDirs = [i \in OverlayIDs |-> FALSE]
    /\ mountTable = [i \in OverlayIDs |-> 0]
    /\ stateFile = NoState
    /\ clock = 1
    /\ overlays = [c \in ContainerIDs |-> NoMount]
    /\ mu = 0
    /\ msched = gs
    /\ mpc = [t \in Goroutines |-> "idle"]
    /\ menv = [t \in Goroutines |-> "ok"]
    /\ mcall = [t \in Goroutines |-> NoCall]
    /\ mount = [t \in Goroutines |-> NoMount]
    /\ mtodo = [t \in Goroutines |-> {}]
    /\ merr = [t \in Goroutines |-> [cleanup |-> "", last |-> ""]]
    /\ mret = [t \in Goroutines |-> NoMRet]
    /\ restarted = FALSE
    /\ crashed = FALSE
    /\ released = {}

\* Overlay requests one clientSetup collects in the model.
MaxOverlays == 3

\* A nil *ClientSnapshotConfig, and a nil StartOption.
NilSnapshot == [nil |-> "ClientSnapshotConfig"]
NilOption == [nil |-> "StartOption"]
NoOption == [nil |-> ""]

\* ClientSnapshotConfig values of the client-definition registry; CacheDir
\* is not read by the start options.
ClientSnapshotConfigs ==
    [Network : {"", "mainnet"}, URL : {"", "https://snapshots"},
     BlockNumber : {"", "100"}, ContainerPath : {"", "/chain"}]
ClientDefinitions ==
    [Name : {"go-ethereum", "besu_default"},
     Snapshot : {NilSnapshot} \cup ClientSnapshotConfigs]

\* simapi.OverlaySpec; a field that is not set holds "".
OverlaySpec(snapshotPath, containerPath, network, client, block, url) ==
    [SnapshotPath |-> snapshotPath, ContainerPath |-> containerPath,
     Network |-> network, Client |-> client, BlockNumber |-> block,
     URL |-> url]

\* No start option was built and no clientSetup is being filled.
OptionsIdle ==
    /\ clientDef = [Name |-> "", Snapshot |-> NilSnapshot]
    /\ startOption = NoOption
    /\ setupOverlays = <<>>
    /\ applied = ""

\* Calls of one payload and iterations of one warmup in the model.
MaxCalls == 3
MaxIterations == 2

\* A nil *payload.Payload.
NilPayload == [nil |-> "Payload"]
\* A nil error, and the error ExecutePayloads wraps around the failing
\* call: "call %d (%s) failed: %w".
NilErr == [nil |-> "error"]
CallErr(index, method, cause) ==
    [index |-> index, method |-> method, cause |-> cause]

NoWarmupResult ==
    [Executed |-> FALSE, Iterations |-> 0, IterationDurations |-> <<>>,
     Errors |-> <<>>]
NoWRet == [returned |-> FALSE, err |-> ""]
NoXRet == [returned |-> FALSE, timings |-> <<>>, err |-> NilErr]

\* Neither Execute nor ExecutePayloads was called.
EngineIdle ==
    /\ entered = ""
    /\ wPayload = NilPayload
    /\ wCfg = [Enabled |-> FALSE, Iterations |-> 0]
    /\ ctxDone = FALSE
    /\ epc = "idle"
    /\ wIter = 0
    /\ wResult = NoWarmupResult
    /\ wRet = NoWRet
    /\ xIdx = 0
    /\ timings = <<>>
    /\ xRet = NoXRet
    /\ sent = <<>>
    /\ nExec = 0
    /\ failedIters = <<>>
    /\ sawDone = FALSE

\* blockNumber arguments of EnsureSnapshotAt; the manager takes "latest"
\* as the name of an entry like any other.
HsEntries == {"100", "latest"}
\* filepath.Join(m.config.CacheDir, network, client, blockNumber, "data")
hsExtractedDir(b) == <<"hive", "snapshots", "mainnet", "geth", b, "data">>
NoHsReqs == [archive |-> 0, metadata |-> 0]
NoHsRet == [err |-> "", path |-> NoPath]

\* An empty cache of the SnapshotManager and no call.
HivesimIdle ==
    /\ hsDirs = [b \in HsEntries |-> FALSE]
    /\ hsArchive = [b \in HsEntries |-> FALSE]
    /\ hsData = [b \in HsEntries |-> "absent"]
    /\ hsMetadata = [b \in HsEntries |-> "absent"]
    /\ hsPc = "idle"
    /\ hsEnv = "ok"
    /\ hsBlock = ""
    /\ hsRet = NoHsRet
    /\ hsReqs = NoHsReqs
    /\ hsFetched = {}
    /\ hsWas = FALSE

SimulatorIdle == OptionsIdle /\ EngineIdle /\ HivesimIdle

\* The components other than the fetcher are at rest.
ElsewhereIdle == NormIdle /\ ManagerInit({}) /\ SimulatorIdle

NoRet == [err |-> "", path |-> NoPath]
NoPrev == [id |-> "", block |-> "", err |-> ""]

InitWith(gs, once, bs) ==
    /\ dirs = [b \in Blocks |-> FALSE]
    /\ archive = [b \in Blocks |-> NoFile]
    /\ data = [b \in Blocks |-> "absent"]
    /\ marker = [b \in Blocks |-> FALSE]
    /\ sched = [goroutines |-> gs, once |-> once, blocks |-> bs]
    /\ called = {}
    /\ pc = [t \in Goroutines |-> "idle"]
    /\ env = [t \in Goroutines |-> "ok"]
    /\ cfgBlock = [t \in Goroutines |-> ""]
    /\ blockNumber = [t \in Goroutines |-> ""]
    /\ existingSize = [t \in Goroutines |-> 0]
    /\ resp = [t \in Goroutines |-> 0]
    /\ body = [t \in Goroutines |-> <<>>]
    /\ fdAppend = [t \in Goroutines |-> FALSE]
    /\ ret = [t \in Goroutines |-> NoRet]
    /\ reqs = [t \in Goroutines |-> [latest |-> 0, archive |-> 0]]
    /\ rangeSent = [t \in Goroutines |-> NoRange]
    /\ downloaded = [t \in Goroutines |-> FALSE]
    /\ prev = NoPrev

\* One goroutine issuing any number of calls, one after the other.
Init == InitWith({1}, FALSE, Blocks) /\ ElsewhereIdle
\* One goroutine issuing any number of calls for the identifiers of one entry.
InitEntry == InitWith({1}, FALSE, {"100"}) /\ ElsewhereIdle
\* Two goroutines, each issuing one call, concurrently, for the identifiers
\* of one entry.
InitConc == InitWith(Goroutines, TRUE, {"100"}) /\ ElsewhereIdle

\* The call returns (path, err).
Returns(t, e, p) ==
    /\ pc' = [pc EXCEPT ![t] = "done"]
    /\ ret' = [ret EXCEPT ![t] = [err |-> e, path |-> p]]

Goto(t, l) == pc' = [pc EXCEPT ![t] = l] /\ UNCHANGED ret

Faulty(t) == env[t] = "faulty"

\* ctx is done: it was cancelled during downloadFile, during extractTarZst
\* or at another point of the call.
Cancelled(t) ==
    env[t] \in {"cancelled", "cancelled_download", "cancelled_extract"}

\* ------------------------------------------------------- EnsureSnapshot
\* Entry: normalisation of cfg, and the branch on "latest".
EnsureSnapshot(t, block, e) ==
    /\ t \in sched.goroutines
    /\ pc[t] = "idle"
    /\ sched.once => t \notin called
    /\ block \in sched.blocks \cup {"latest", ""}
    /\ called' = IF sched.once THEN called \cup {t} ELSE called
    /\ LET b == IF block = "" THEN "latest" ELSE block IN
        /\ cfgBlock' = [cfgBlock EXCEPT ![t] = b]
        /\ blockNumber' = [blockNumber EXCEPT ![t] = b]
        /\ Goto(t, IF b = "latest" THEN "resolve" ELSE "stat_marker")
    /\ env' = [env EXCEPT ![t] = e]
    /\ existingSize' = [existingSize EXCEPT ![t] = 0]
    /\ resp' = [resp EXCEPT ![t] = 0]
    /\ body' = [body EXCEPT ![t] = <<>>]
    /\ fdAppend' = [fdAppend EXCEPT ![t] = FALSE]
    /\ reqs' = [reqs EXCEPT ![t] = [latest |-> 0, archive |-> 0]]
    /\ rangeSent' = [rangeSent EXCEPT ![t] = NoRange]
    /\ downloaded' = [downloaded EXCEPT ![t] = FALSE]
    /\ UNCHANGED <<elsewhere, disk, sched, prev>>

\* resolveLatestBlock and the error check after it: one GET of .../latest.
resolveLatestBlock(t) ==
    /\ pc[t] = "resolve"
    /\ reqs' = [reqs EXCEPT ![t].latest = @ + 1]
    /\ \/ /\ Faulty(t) \/ Cancelled(t)
          /\ Returns(t, "resolve", NoPath)
          /\ UNCHANGED blockNumber
       \/ \E b \in sched.blocks :
            /\ ~Cancelled(t)
            /\ blockNumber' = [blockNumber EXCEPT ![t] = b]
            /\ Goto(t, "stat_marker")
    /\ UNCHANGED <<elsewhere, disk, caller, env, cfgBlock, existingSize, resp, body,
                   fdAppend, rangeSent, downloaded, prev>>

\* os.Stat(markerPath): the fast path.
EnsureSnapshot_StatMarker(t) ==
    /\ pc[t] = "stat_marker"
    /\ IF marker[blockNumber[t]]
         THEN Returns(t, "", extractedDir(blockNumber[t]))
         ELSE Goto(t, "mkdir")
    /\ UNCHANGED <<elsewhere, disk, caller, env, locals, hist>>

\* ----------------------------------------------------- downloadSnapshot
\* os.MkdirAll(destDir).
downloadSnapshot_MkdirAll(t) ==
    /\ pc[t] = "mkdir"
    /\ \/ /\ Faulty(t)
          /\ Returns(t, "mkdir", NoPath)
          /\ UNCHANGED dirs
       \/ /\ dirs' = [dirs EXCEPT ![blockNumber[t]] = TRUE]
          /\ Goto(t, "dl_stat")
    /\ UNCHANGED <<elsewhere, archive, data, marker, caller, env, locals, hist>>

\* --------------------------------------------------------- downloadFile
\* What the server may answer to an archive GET carrying Range header r
\* (NoRange: none).  In an "ok" environment it follows the range semantics:
\* the full body to a plain GET, the rest or the full body to a range
\* inside the resource, 416 or the full body to a range starting at or
\* after its end.  Otherwise any status.
ServerStatus(e, r) ==
    IF e = "ok"
      THEN IF r = NoRange THEN {StatusOK}
           ELSE IF r < ArchiveSize THEN {StatusPartialContent, StatusOK}
           ELSE {StatusRequestedRangeNotSatisfiable, StatusOK}
      ELSE {StatusOK, StatusPartialContent,
            StatusRequestedRangeNotSatisfiable} \cup OtherStatuses

\* The body of a 206 answer to Range header r: the resource from byte r on.
PartialBody(r) ==
    IF r = NoRange THEN Resource
    ELSE IF r >= ArchiveSize THEN <<>>
    ELSE SubSeq(Resource, r + 1, ArchiveSize)

Zeros(n) == [i \in 1..n |-> 0]

\* One write of byte x through a descriptor whose offset is pos (append:
\* the descriptor was opened with O_APPEND and writes at the end).  A write
\* through a descriptor of a file that was unlinked meanwhile does not show
\* under the path.
WriteByte(f, append, pos, x) ==
    IF ~f.exists THEN f
    ELSE IF append \/ pos = Len(f.bytes) THEN File(Append(f.bytes, x))
    ELSE IF pos < Len(f.bytes) THEN File([f.bytes EXCEPT ![pos + 1] = x])
    ELSE File(f.bytes \o Zeros(pos - Len(f.bytes)) \o <<x>>)

\* os.Stat(destPath): existingSize.
downloadFile_Stat(t) ==
    /\ pc[t] = "dl_stat"
    /\ existingSize' = [existingSize EXCEPT ![t] =
           IF archive[blockNumber[t]].exists
             THEN Len(archive[blockNumber[t]].bytes) ELSE 0]
    /\ Goto(t, "dl_req")
    /\ UNCHANGED <<elsewhere, disk, caller, env, cfgBlock, blockNumber, resp, body,
                   fdAppend, hist>>

\* The request: Range header when existingSize > 0, then f.client.Do.
downloadFile_Do(t) ==
    /\ pc[t] = "dl_req"
    /\ reqs[t].archive < MaxReq
    /\ reqs' = [reqs EXCEPT ![t].archive = @ + 1]
    /\ rangeSent' = [rangeSent EXCEPT ![t] = RangeHeader(existingSize[t])]
    /\ \/ /\ Faulty(t) \/ Cancelled(t)
          /\ Goto(t, "dl_failed")
          /\ UNCHANGED resp
       \/ \E s \in ServerStatus(env[t], RangeHeader(existingSize[t])) :
            /\ ~Cancelled(t)
            /\ resp' = [resp EXCEPT ![t] = s]
            /\ Goto(t, "dl_switch")
    /\ UNCHANGED <<elsewhere, disk, caller, env, cfgBlock, blockNumber, existingSize,
                   body, fdAppend, downloaded, prev>>

\* case http.StatusOK: os.Create truncates the file.
downloadFile_StatusOK(t) ==
    /\ pc[t] = "dl_switch"
    /\ resp[t] = StatusOK
    /\ \/ /\ Faulty(t)
          /\ Goto(t, "dl_failed")
          /\ UNCHANGED <<archive, body, fdAppend>>
       \/ /\ archive' = [archive EXCEPT ![blockNumber[t]] = File(<<>>)]
          /\ body' = [body EXCEPT ![t] = Resource]
          /\ fdAppend' = [fdAppend EXCEPT ![t] = FALSE]
          /\ Goto(t, "dl_copy")
    /\ UNCHANGED <<elsewhere, dirs, data, marker, caller, env, cfgBlock, blockNumber,
                   existingSize, resp, hist>>

\* Mutant: the 206 branch opens the file with os.Create, as the 200 branch
\* does, and so drops the bytes already on disk.
downloadFile_StatusPartialContent_Create(t) ==
    /\ pc[t] = "dl_switch"
    /\ resp[t] = StatusPartialContent
    /\ archive' = [archive EXCEPT ![blockNumber[t]] = File(<<>>)]
    /\ body' = [body EXCEPT ![t] = PartialBody(rangeSent[t])]
    /\ fdAppend' = [fdAppend EXCEPT ![t] = FALSE]
    /\ Goto(t, "dl_copy")
    /\ UNCHANGED <<elsewhere, dirs, data, marker, caller, env, cfgBlock, blockNumber,
                   existingSize, resp, hist>>

\* case http.StatusPartialContent: os.OpenFile(O_APPEND|O_WRONLY), which
\* does not create the file.
downloadFile_StatusPartialContent(t) ==
    /\ pc[t] = "dl_switch"
    /\ resp[t] = StatusPartialContent
    /\ \/ /\ Faulty(t) \/ ~archive[blockNumber[t]].exists
          /\ Goto(t, "dl_failed")
          /\ UNCHANGED <<body, fdAppend>>
       \/ /\ archive[blockNumber[t]].exists
          /\ body' = [body EXCEPT ![t] = PartialBody(rangeSent[t])]
          /\ fdAppend' = [fdAppend EXCEPT ![t] = TRUE]
          /\ Goto(t, "dl_copy")
    /\ UNCHANGED <<elsewhere, disk, caller, env, cfgBlock, blockNumber, existingSize,
                   resp, hist>>

\* Mutant: the retry after 416 without removing the file.
downloadFile_RangeNotSatisfiable_KeepsFile(t) ==
    /\ pc[t] = "dl_switch"
    /\ resp[t] = StatusRequestedRangeNotSatisfiable
    /\ Goto(t, "dl_stat")
    /\ UNCHANGED <<elsewhere, disk, caller, env, locals, hist>>

\* case http.StatusRequestedRangeNotSatisfiable: os.Remove(destPath) and
\* the recursive call of downloadFile.
downloadFile_RangeNotSatisfiable(t) ==
    /\ pc[t] = "dl_switch"
    /\ resp[t] = StatusRequestedRangeNotSatisfiable
    /\ archive' = [archive EXCEPT ![blockNumber[t]] = NoFile]
    /\ Goto(t, "dl_stat")
    /\ UNCHANGED <<elsewhere, dirs, data, marker, caller, env, locals, hist>>

\* Mutant: an unexpected status removes the file, as the 416 branch does.
downloadFile_DefaultStatus_Remove(t) ==
    /\ pc[t] = "dl_switch"
    /\ resp[t] \notin {StatusOK, StatusPartialContent,
                       StatusRequestedRangeNotSatisfiable}
    /\ archive' = [archive EXCEPT ![blockNumber[t]] = NoFile]
    /\ Goto(t, "dl_failed")
    /\ UNCHANGED <<elsewhere, dirs, data, marker, caller, env, locals, hist>>

\* default: the error "HTTP <code>".
downloadFile_DefaultStatus(t) ==
    /\ pc[t] = "dl_switch"
    /\ resp[t] \notin {StatusOK, StatusPartialContent,
                       StatusRequestedRangeNotSatisfiable}
    /\ Goto(t, "dl_failed")
    /\ UNCHANGED <<elsewhere, disk, caller, env, locals, hist>>

\* io.Copy, one byte of the body.
downloadFile_Copy(t) ==
    /\ pc[t] = "dl_copy"
    /\ body[t] # <<>>
    /\ ~Cancelled(t)
    /\ archive' = [archive EXCEPT ![blockNumber[t]] =
           WriteByte(@, fdAppend[t], ArchiveSize - Len(body[t]),
                     Head(body[t]))]
    /\ body' = [body EXCEPT ![t] = Tail(@)]
    /\ downloaded' = [downloaded EXCEPT ![t] = TRUE]
    /\ Goto(t, "dl_copy")
    /\ UNCHANGED <<elsewhere, dirs, data, marker, caller, env, cfgBlock, blockNumber,
                   existingSize, resp, fdAppend, reqs, rangeSent, prev>>

\* io.Copy fails: a transport error while bytes remain, or a read of the
\* body under a cancelled context.
downloadFile_CopyErr(t) ==
    /\ pc[t] = "dl_copy"
    /\ (body[t] # <<>> /\ Faulty(t)) \/ Cancelled(t)
    /\ Goto(t, "dl_failed")
    /\ UNCHANGED <<elsewhere, disk, caller, env, locals, hist>>

\* io.Copy reaches the end of the body: downloadFile returns nil.
downloadFile_Complete(t) ==
    /\ pc[t] = "dl_copy"
    /\ body[t] = <<>>
    /\ Goto(t, "mk_data")
    /\ UNCHANGED <<elsewhere, disk, caller, env, locals, hist>>

\* Mutant: the entry directory is removed when the download fails.
downloadSnapshot_DownloadErr_RemoveAll(t) ==
    /\ pc[t] = "dl_failed"
    /\ dirs' = [dirs EXCEPT ![blockNumber[t]] = FALSE]
    /\ archive' = [archive EXCEPT ![blockNumber[t]] = NoFile]
    /\ data' = [data EXCEPT ![blockNumber[t]] = "absent"]
    /\ marker' = [marker EXCEPT ![blockNumber[t]] = FALSE]
    /\ Returns(t, "download", NoPath)
    /\ UNCHANGED <<elsewhere, caller, env, locals, hist>>

\* downloadSnapshot on an error of downloadFile: the partial file stays.
downloadSnapshot_DownloadErr(t) ==
    /\ pc[t] = "dl_failed"
    /\ Returns(t, "download", NoPath)
    /\ UNCHANGED <<elsewhere, disk, caller, env, locals, hist>>

\* --------------------------------------- downloadSnapshot, after download
\* os.MkdirAll(extractedDir).
downloadSnapshot_MkdirData(t) ==
    /\ pc[t] = "mk_data"
    /\ \/ /\ Faulty(t)
          /\ Returns(t, "mkdata", NoPath)
          /\ UNCHANGED data
       \/ /\ data' = [data EXCEPT ![blockNumber[t]] =
                 IF @ = "absent" THEN "empty" ELSE @]
          /\ Goto(t, "extract")
    /\ UNCHANGED <<elsewhere, dirs, archive, marker, caller, env, locals, hist>>

\* extractTarZst, the pipeline zstd -d -c archive | tar -xf - -C data: it
\* starts writing entries once it can read the head of the archive.
extractTarZst_Write(t) ==
    /\ pc[t] = "extract"
    /\ archive[blockNumber[t]].exists
    /\ archive[blockNumber[t]].bytes # <<>>
    /\ Head(archive[blockNumber[t]].bytes) = Head(Resource)
    /\ ~Cancelled(t)
    /\ data' = [data EXCEPT ![blockNumber[t]] = "partial"]
    /\ Goto(t, "extracting")
    /\ UNCHANGED <<elsewhere, dirs, archive, marker, caller, env, locals, hist>>

\* extractTarZst returns nil: the pipeline read the whole, intact archive.
extractTarZst_Ok(t) ==
    /\ pc[t] = "extracting"
    /\ archive[blockNumber[t]] = File(Resource)
    /\ ~Cancelled(t)
    /\ data' = [data EXCEPT ![blockNumber[t]] = "full"]
    /\ Goto(t, "rm_archive")
    /\ UNCHANGED <<elsewhere, dirs, archive, marker, caller, env, locals, hist>>

\* extractTarZst returns an error: zstd is not installed, the context is
\* cancelled (exec.CommandContext does not start the command, or kills
\* it), or the archive is missing, truncated or damaged.
extractTarZst_Err(t) ==
    /\ pc[t] \in {"extract", "extracting"}
    /\ Faulty(t) \/ Cancelled(t) \/ archive[blockNumber[t]] # File(Resource)
    /\ Goto(t, "ex_failed")
    /\ UNCHANGED <<elsewhere, disk, caller, env, locals, hist>>

\* Mutant: the error branch returns without removing data/.
downloadSnapshot_ExtractErr_KeepsData(t) ==
    /\ pc[t] = "ex_failed"
    /\ Returns(t, "extract", NoPath)
    /\ UNCHANGED <<elsewhere, disk, caller, env, locals, hist>>

\* Mutant: the error branch lacks its return and falls through.
downloadSnapshot_ExtractErr_NoReturn(t) ==
    /\ pc[t] = "ex_failed"
    /\ data' = [data EXCEPT ![blockNumber[t]] = "absent"]
    /\ Goto(t, "rm_archive")
    /\ UNCHANGED <<elsewhere, dirs, archive, marker, caller, env, locals, hist>>

\* downloadSnapshot on an error of extractTarZst: os.RemoveAll(extractedDir),
\* the archive stays.
downloadSnapshot_ExtractErr(t) ==
    /\ pc[t] = "ex_failed"
    /\ data' = [data EXCEPT ![blockNumber[t]] = "absent"]
    /\ Returns(t, "extract", NoPath)
    /\ UNCHANGED <<elsewhere, dirs, archive, marker, caller, env, locals, hist>>

\* os.Remove(archivePath); its result is discarded.
downloadSnapshot_RemoveArchive(t) ==
    /\ pc[t] = "rm_archive"
    /\ \/ archive' = [archive EXCEPT ![blockNumber[t]] = NoFile]
       \/ Faulty(t) /\ UNCHANGED archive
    /\ Goto(t, "wr_marker")
    /\ UNCHANGED <<elsewhere, dirs, data, marker, caller, env, locals, hist>>

\* os.WriteFile(markerPath): a failure is logged, and downloadSnapshot
\* returns nil either way; EnsureSnapshot then returns extractedDir.
downloadSnapshot_WriteMarker(t) ==
    /\ pc[t] = "wr_marker"
    /\ \/ marker' = [marker EXCEPT ![blockNumber[t]] = TRUE]
       \/ Faulty(t) /\ UNCHANGED marker
    /\ Returns(t, "", extractedDir(blockNumber[t]))
    /\ UNCHANGED <<elsewhere, dirs, archive, data, caller, env, locals, hist>>

\* The caller takes the result; the goroutine is free for the next call.
Return(t) ==
    /\ pc[t] = "done"
    /\ prev' = [id |-> cfgBlock[t], block |-> blockNumber[t], err |-> ret[t].err]
    /\ pc' = [pc EXCEPT ![t] = "idle"]
    /\ ret' = [ret EXCEPT ![t] = NoRet]
    /\ env' = [env EXCEPT ![t] = "ok"]
    /\ cfgBlock' = [cfgBlock EXCEPT ![t] = ""]
    /\ blockNumber' = [blockNumber EXCEPT ![t] = ""]
    /\ existingSize' = [existingSize EXCEPT ![t] = 0]
    /\ resp' = [resp EXCEPT ![t] = 0]
    /\ body' = [body EXCEPT ![t] = <<>>]
    /\ fdAppend' = [fdAppend EXCEPT ![t] = FALSE]
    /\ reqs' = [reqs EXCEPT ![t] = [latest |-> 0, archive |-> 0]]
    /\ rangeSent' = [rangeSent EXCEPT ![t] = NoRange]
    /\ downloaded' = [downloaded EXCEPT ![t] = FALSE]
    /\ UNCHANGED <<elsewhere, disk, sched, called>>

InCall(t) == pc[t] \notin {"idle", "done"}

\* GetCachedSnapshotPath on the cache as it is: os.Stat of .complete in the
\* entry directory of the block as given, "" read as "latest".  No call
\* creates an entry directory named "latest".
GetCachedSnapshotPath(block) ==
    LET blockNumber_ == IF block = "" THEN "latest" ELSE block
    IN  IF blockNumber_ \in Blocks /\ marker[blockNumber_]
          THEN extractedDir(blockNumber_)
          ELSE NoPath

\* The process dies while calls are running: the goroutines are gone, the
\* cache directory stays as it is.
Crash ==
    /\ \E t \in Goroutines : InCall(t)
    /\ \A t \in Goroutines : InCall(t) => Faulty(t)
    /\ pc' = [t \in Goroutines |-> "idle"]
    /\ env' = [t \in Goroutines |-> "ok"]
    /\ cfgBlock' = [t \in Goroutines |-> ""]
    /\ blockNumber' = [t \in Goroutines |-> ""]
    /\ existingSize' = [t \in Goroutines |-> 0]
    /\ resp' = [t \in Goroutines |-> 0]
    /\ body' = [t \in Goroutines |-> <<>>]
    /\ fdAppend' = [t \in Goroutines |-> FALSE]
    /\ ret' = [t \in Goroutines |-> NoRet]
    /\ reqs' = [t \in Goroutines |-> [latest |-> 0, archive |-> 0]]
    /\ rangeSent' = [t \in Goroutines |-> NoRange]
    /\ downloaded' = [t \in Goroutines |-> FALSE]
    /\ prev' = [id |-> "", block |-> "", err |-> "crash"]
    /\ UNCHANGED <<elsewhere, disk, sched, called>>

\* The steps of a running call.
Step(t) ==
    \/ resolveLatestBlock(t)
    \/ EnsureSnapshot_StatMarker(t)
    \/ downloadSnapshot_MkdirAll(t)
    \/ downloadFile_Stat(t)
    \/ downloadFile_Do(t)
    \/ downloadFile_StatusOK(t)
    \/ downloadFile_StatusPartialContent(t)
    \/ downloadFile_RangeNotSatisfiable(t)
    \/ downloadFile_DefaultStatus(t)
    \/ downloadFile_Copy(t)
    \/ downloadFile_CopyErr(t)
    \/ downloadFile_Complete(t)
    \/ downloadSnapshot_DownloadErr(t)
    \/ downloadSnapshot_MkdirData(t)
    \/ extractTarZst_Write(t)
    \/ extractTarZst_Ok(t)
    \/ extractTarZst_Err(t)
    \/ downloadSnapshot_ExtractErr(t)
    \/ downloadSnapshot_RemoveArchive(t)
    \/ downloadSnapshot_WriteMarker(t)

Next ==
    \/ \E t \in Goroutines, b \in CfgBlocks, e \in {"ok", "faulty"} :
         EnsureSnapshot(t, b, e)
    \/ \E t \in Goroutines : Step(t)
    \/ \E t \in Goroutines : Return(t)
    \/ Crash

\* Sequential calls, with faults and crashes.
Spec == Init /\ [][Next]_vars

\* Two goroutines calling concurrently.
SpecConc == InitConc /\ [][Next]_vars

\* Sequential calls for the identifiers of one entry; a running call is
\* scheduled until it returns (the steps of a call are synchronous code of
\* the calling goroutine).
FairSpec ==
    /\ InitEntry
    /\ [][Next]_vars
    /\ \A t \in Goroutines : WF_vars(Step(t))

\* The caller cancels ctx while the call, so far free of faults, is under
\* way.
Cancel(t) ==
    /\ InCall(t)
    /\ env[t] = "ok"
    /\ env' = [env EXCEPT ![t] =
           CASE pc[t] \in {"dl_stat", "dl_req", "dl_switch", "dl_copy"}
                  -> "cancelled_download"
             [] pc[t] \in {"extract", "extracting"} -> "cancelled_extract"
             [] OTHER -> "cancelled"]
    /\ UNCHANGED <<elsewhere, disk, caller, pc, locals, ret, hist>>

NextCancel ==
    \/ Next
    \/ \E t \in Goroutines : Cancel(t)

\* Sequential calls for the identifiers of one entry, with faults, crashes
\* and cancellation of the context.
SpecCancel == InitEntry /\ [][NextCancel]_vars

\* ------------------------------------------- identifier normalisation
\* Strings are sequences of characters here, so that strings.ToLower,
\* strings.Index and the slicing of mapClientName are computed.
Str_latest == <<"l", "a", "t", "e", "s", "t">>
Str_100 == <<"1", "0", "0">>
Str_200 == <<"2", "0", "0">>
Str_mainnet == <<"m", "a", "i", "n", "n", "e", "t">>
Str_Mainnet == <<"M", "a", "i", "n", "n", "e", "t">>
Str_go_ethereum == <<"g", "o", "-", "e", "t", "h", "e", "r", "e", "u", "m">>
Str_Go_Ethereum == <<"G", "o", "-", "E", "t", "h", "e", "r", "e", "u", "m">>
Str_geth == <<"g", "e", "t", "h">>
Str_GETH == <<"G", "E", "T", "H">>
Str_nethermind ==
    <<"n", "e", "t", "h", "e", "r", "m", "i", "n", "d">>
Str_besu == <<"b", "e", "s", "u">>
Str_reth == <<"r", "e", "t", "h">>
Str_erigon == <<"e", "r", "i", "g", "o", "n">>
Str_cache == <<"c", "a", "c", "h", "e">>

\* cfg.Network, cfg.Client and cfg.BlockNumber as callers may give them.
NormNetworks == {Str_mainnet, Str_Mainnet}
NormClients ==
    {Str_go_ethereum, Str_Go_Ethereum, Str_geth, Str_GETH, Str_besu,
     Str_go_ethereum \o <<"_">> \o Str_besu,
     Str_Go_Ethereum \o <<"_", "a", "_", "b">>,
     Str_geth \o <<"_", "a">>,
     Str_reth \o <<"_">>,
     <<"_">> \o Str_geth,
     <<"_">> \o Str_go_ethereum,
     <<>>}
NormBlocks == {<<>>, Str_latest, Str_100}
Identifiers ==
    [network : NormNetworks, client : NormClients, block : NormBlocks]

\* unicode.ToLower on the letters in use.
ToLowerRune(c) ==
    CASE c = "G" -> "g"
      [] c = "E" -> "e"
      [] c = "T" -> "t"
      [] c = "H" -> "h"
      [] c = "M" -> "m"
      [] OTHER -> c

\* strings.ToLower
ToLower(s) == [i \in 1..Len(s) |-> ToLowerRune(s[i])]

\* strings.Index(s, "_"): the 0-based index of the first "_", or -1.
IndexUnderscore(s) ==
    IF \E i \in 1..Len(s) : s[i] = "_"
      THEN (CHOOSE i \in 1..Len(s) :
                /\ s[i] = "_"
                /\ \A j \in 1..(i - 1) : s[j] # "_") - 1
      ELSE 0 - 1

\* The table of mapClientName.
mapping ==
    [k \in {Str_go_ethereum, Str_nethermind, Str_besu, Str_reth, Str_erigon}
        |-> IF k = Str_go_ethereum THEN Str_geth ELSE k]

mapClientName(hiveName) ==
    LET idx == IndexUnderscore(hiveName)
        baseName == IF idx > 0 THEN SubSeq(hiveName, 1, idx) ELSE hiveName
    IN  IF ToLower(baseName) \in DOMAIN mapping
          THEN mapping[ToLower(baseName)]
          ELSE baseName

NonEmpty(x) == x # <<>>
\* filepath.Join: the empty elements are dropped.
Join(elems) == SelectSeq(elems, NonEmpty)

\* The normalisation at the head of EnsureSnapshot.
EnsureSnapshot_Normalize(cfg) ==
    [network |-> ToLower(cfg.network),
     client |-> ToLower(mapClientName(cfg.client)),
     block |-> IF cfg.block = <<>> THEN Str_latest ELSE cfg.block]

\* snapshotDir of EnsureSnapshot, resolved being what the server names at
\* .../latest during the call.
EnsureSnapshot_snapshotDir(cfg, resolved) ==
    LET n == EnsureSnapshot_Normalize(cfg)
        blockNumber_ == IF n.block = Str_latest THEN resolved ELSE n.block
    IN  Join(<<Str_cache, n.network, n.client, blockNumber_>>)

\* The normalisation at the head of GetCachedSnapshotPath.
GetCachedSnapshotPath_Normalize(id) ==
    [network |-> ToLower(id.network),
     client |-> ToLower(mapClientName(id.client)),
     block |-> IF id.block = <<>> THEN Str_latest ELSE id.block]

\* The directory GetCachedSnapshotPath looks for .complete in.
GetCachedSnapshotPath_entryDir(id) ==
    LET n == GetCachedSnapshotPath_Normalize(id)
    IN  Join(<<Str_cache, n.network, n.client, n.block>>)

\* Two identifiers are given, and the server names a block at .../latest.
InitNorm ==
    /\ InitWith({}, FALSE, {})
    /\ ManagerInit({})
    /\ SimulatorIdle
    /\ nIds \in Identifiers \X Identifiers
    /\ nLatest \in {Str_100, Str_200}
    /\ nEnsure = <<>>
    /\ nCached = <<>>

\* EnsureSnapshot is called with each of the two identifiers: the entry
\* directory it builds.
Norm_EnsureSnapshot ==
    /\ nIds # <<>>
    /\ nEnsure = <<>>
    /\ nEnsure' = [i \in 1..2 |-> EnsureSnapshot_snapshotDir(nIds[i], nLatest)]
    /\ UNCHANGED <<fetcher, simulator, manager, nIds, nLatest, nCached>>

\* GetCachedSnapshotPath is called with each of the two identifiers: the
\* entry directory it looks in.
Norm_GetCachedSnapshotPath ==
    /\ nIds # <<>>
    /\ nCached = <<>>
    /\ nCached' = [i \in 1..2 |-> GetCachedSnapshotPath_entryDir(nIds[i])]
    /\ UNCHANGED <<fetcher, simulator, manager, nIds, nLatest, nEnsure>>

\* The caller goes on with the identifiers in their normalised form.
Norm_Renormalize ==
    /\ nIds # <<>>
    /\ \E i \in 1..2 : nIds[i] # EnsureSnapshot_Normalize(nIds[i])
    /\ nIds' = [i \in 1..2 |-> EnsureSnapshot_Normalize(nIds[i])]
    /\ UNCHANGED <<fetcher, simulator, manager, nLatest, nEnsure, nCached>>

NormNext ==
    \/ Norm_EnsureSnapshot
    \/ Norm_GetCachedSnapshotPath
    \/ Norm_Renormalize

\* The normalisation and the two path computations on pairs of identifiers.
SpecNorm == InitNorm /\ [][NormNext]_vars

\* ------------------------------------------------------ overlay manager
\* Overlay mounts on one merged directory the model follows.
MaxStack == 2

\* The call returns; the deferred m.mu.Unlock() runs.
MReturns(t, e, m) ==
    /\ mpc' = [mpc EXCEPT ![t] = "done"]
    /\ mret' = [mret EXCEPT ![t] = [err |-> e, mount |-> m]]
    /\ mu' = 0

MGoto(t, l) == mpc' = [mpc EXCEPT ![t] = l] /\ UNCHANGED <<mret, mu>>

MFaulty(t) == menv[t] = "faulty"

\* A goroutine calls the manager and takes m.mu.  The call records whether
\* it is the first of the process and whether the call before it gave up
\* the overlay of c.
MCall(t, op, c, p, e, l) ==
    /\ t \in msched
    /\ mpc[t] = "idle"
    /\ mu = 0
    /\ mu' = t
    /\ mcall' = [mcall EXCEPT ![t] = [op |-> op, containerID |-> c,
                                      snapshotPath |-> p, first |-> restarted,
                                      after |-> c \in released,
                                      conc |-> FALSE]]
    /\ menv' = [menv EXCEPT ![t] = e]
    /\ mpc' = [mpc EXCEPT ![t] = l]
    /\ restarted' = FALSE
    /\ released' = {}
    /\ UNCHANGED <<fetcher, simulator, norm, host, overlays, msched, mount, mtodo, merr,
                   mret, crashed>>

\* Mutant: the removal takes every tree under the overlay root.
RemoveAll_Root(id) == [i \in OverlayIDs |-> overlayDirs[i] /\ mountTable[i] > 0]

\* os.RemoveAll(overlayDir): the tree goes unless a mount is still on its
\* merged directory.
RemoveAll(id) == [overlayDirs EXCEPT ![id] = @ /\ mountTable[id] > 0]

\* What persistState can leave in state.json for the registry reg.  A
\* failed os.WriteFile leaves the file as it was or cut short.
persistState(t, reg) ==
    IF \A c \in ContainerIDs : reg[c] = NoMount
      THEN {NoState}
      ELSE {StateOf(reg)}
           \cup (IF MFaulty(t) THEN {stateFile, Malformed} ELSE {})

\* ------------------------------------------------------- CreateOverlay
CreateOverlay(t, containerID, snapshotPath, e) ==
    /\ snapshotPath \in SnapshotPaths
    /\ MCall(t, "CreateOverlay", containerID, snapshotPath, e, "co_check")

\* Mutant: the validation lacks the info.IsDir() check.
CreateOverlay_Validate_NoIsDir(t) ==
    /\ mpc[t] = "co_check"
    /\ IF overlays[mcall[t].containerID] # NoMount
         THEN MReturns(t, "ErrOverlayExists", NoMount)
         ELSE \/ /\ lowerDirs[mcall[t].snapshotPath] = "absent"
                 /\ MReturns(t, "ErrSnapshotNotFound", NoMount)
              \/ /\ lowerDirs[mcall[t].snapshotPath] # "absent"
                 /\ MFaulty(t)
                 /\ MReturns(t, "stat", NoMount)
              \/ /\ lowerDirs[mcall[t].snapshotPath] # "absent"
                 /\ MGoto(t, "co_id")
    /\ UNCHANGED <<fetcher, simulator, norm, host, overlays, msched, menv, mlocals,
                   restarted, crashed, released>>

\* The duplicate check and the validation of config.SnapshotPath.
CreateOverlay_Validate(t) ==
    /\ mpc[t] = "co_check"
    /\ IF overlays[mcall[t].containerID] # NoMount
         THEN MReturns(t, "ErrOverlayExists", NoMount)
         ELSE \/ /\ lowerDirs[mcall[t].snapshotPath] = "absent"
                 /\ MReturns(t, "ErrSnapshotNotFound", NoMount)
              \/ /\ lowerDirs[mcall[t].snapshotPath] # "absent"
                 /\ MFaulty(t)
                 /\ MReturns(t, "stat", NoMount)
              \/ /\ lowerDirs[mcall[t].snapshotPath] = "file"
                 /\ MReturns(t, "ErrSnapshotNotDirectory", NoMount)
              \/ /\ lowerDirs[mcall[t].snapshotPath] = "dir"
                 /\ MGoto(t, "co_id")
    /\ UNCHANGED <<fetcher, simulator, norm, host, overlays, msched, menv, mlocals,
                   restarted, crashed, released>>

\* overlayID: containerID[:12] panics on a shorter id; the deferred Unlock
\* runs.
CreateOverlay_GenerateID(t) ==
    /\ mpc[t] = "co_id"
    /\ IF Len(mcall[t].containerID) < IDPrefixLen
         THEN /\ MReturns(t, "panic", NoMount)
              /\ UNCHANGED <<clock, mount>>
         ELSE \E n \in clock..MaxNano :
                /\ clock' = n
                /\ mount' = [mount EXCEPT ![t] =
                                overlayID(mcall[t].containerID, n)]
                /\ MGoto(t, "co_mkdir")
    /\ UNCHANGED <<fetcher, simulator, norm, lowerDirs, overlayDirs, mountTable,
                   stateFile, overlays, msched, menv, mcall, mtodo, merr,
                   restarted, crashed, released>>

\* os.MkdirAll of upper, work and merged; on a failure os.RemoveAll of the
\* overlay directory.
CreateOverlay_MkdirAll(t) ==
    /\ mpc[t] = "co_mkdir"
    /\ \/ /\ overlayDirs' = [overlayDirs EXCEPT ![mount[t]] = TRUE]
          /\ MGoto(t, "co_mount")
       \/ /\ MFaulty(t)
          /\ overlayDirs' = RemoveAll(mount[t])
          /\ MReturns(t, "mkdir", NoMount)
    /\ UNCHANGED <<fetcher, simulator, norm, lowerDirs, mountTable, stateFile, clock,
                   overlays, msched, menv, mlocals, restarted, crashed, released>>

\* Errors of mountOverlay: the Linux build, and the build for other systems.
MountErrors == {"ErrPermissionDenied", "ErrMountFailed", "ErrOverlayNotSupported"}

\* m.mountOverlay(mount); on an error os.RemoveAll of the overlay directory.
\* A mount whose upper directory another mount uses may be refused.
CreateOverlay_mountOverlay(t) ==
    /\ mpc[t] = "co_mount"
    /\ \/ /\ mountTable[mount[t]] < MaxStack
          /\ mountTable' = [mountTable EXCEPT ![mount[t]] = @ + 1]
          /\ MGoto(t, "co_register")
          /\ UNCHANGED overlayDirs
       \/ /\ MFaulty(t) \/ mountTable[mount[t]] > 0
          /\ overlayDirs' = RemoveAll(mount[t])
          /\ \E e \in MountErrors : MReturns(t, e, NoMount)
          /\ UNCHANGED mountTable
    /\ UNCHANGED <<fetcher, simulator, norm, lowerDirs, stateFile, clock, overlays,
                   msched, menv, mlocals, restarted, crashed, released>>

\* m.overlays[containerID] = mount, persistState (an error of it is only
\* logged) and the return of the mount.
CreateOverlay_Register(t) ==
    /\ mpc[t] = "co_register"
    /\ overlays' = [overlays EXCEPT ![mcall[t].containerID] = mount[t]]
    /\ stateFile' \in persistState(t, overlays')
    /\ MReturns(t, "", mount[t])
    /\ UNCHANGED <<fetcher, simulator, norm, lowerDirs, overlayDirs, mountTable, clock,
                   msched, menv, mlocals, restarted, crashed, released>>

\* -------------------------------------------------------- cleanupMount
\* cleanupMount ends with the error e; its caller goes on.
cleanupMount_Returns(t, e) ==
    /\ merr' = [merr EXCEPT ![t].cleanup = e]
    /\ MGoto(t, "cm_done")

\* isMounted(mount.MergedDir): a scan of /proc/mounts, false when the file
\* cannot be opened.
cleanupMount_isMounted(t) ==
    /\ mpc[t] = "cm_check"
    /\ \/ /\ mountTable[mount[t]] > 0
          /\ MGoto(t, "cm_unmount")
       \/ /\ mountTable[mount[t]] = 0 \/ MFaulty(t)
          /\ MGoto(t, "cm_dirs")
    /\ UNCHANGED <<fetcher, simulator, norm, host, overlays, msched, menv, mlocals,
                   restarted, crashed, released>>

\* One syscall.Unmount at the step from of the ladder: on success
\* cleanupDirs, on an error the step next.
Unmount(t, from, next) ==
    /\ mpc[t] = from
    /\ \/ /\ mountTable[mount[t]] > 0
          /\ mountTable' = [mountTable EXCEPT ![mount[t]] = @ - 1]
          /\ MGoto(t, "cm_dirs")
          /\ UNCHANGED merr
       \/ /\ mountTable[mount[t]] = 0 \/ MFaulty(t)
          /\ UNCHANGED mountTable
          /\ IF next = "cm_done"
               THEN cleanupMount_Returns(t, "ErrUnmountFailed")
               ELSE MGoto(t, next) /\ UNCHANGED merr
    /\ UNCHANGED <<fetcher, simulator, norm, lowerDirs, overlayDirs, stateFile, clock,
                   overlays, msched, menv, mcall, mount, mtodo, restarted, crashed, released>>

\* syscall.Unmount(mount.MergedDir, 0)
cleanupMount_Unmount(t) ==
    /\ mpc[t] = "cm_unmount"
    /\ Unmount(t, "cm_unmount", "cm_lazy")

\* syscall.Unmount(mount.MergedDir, MNT_DETACH)
cleanupMount_LazyUnmount(t) ==
    /\ mpc[t] = "cm_lazy"
    /\ Unmount(t, "cm_lazy", "cm_kill")

\* Mutant: a failure of killProcesses ends the escalation.
cleanupMount_killProcesses_Aborts(t) ==
    /\ mpc[t] = "cm_kill"
    /\ IF MFaulty(t)
         THEN cleanupMount_Returns(t, "kill")
         ELSE MGoto(t, "cm_force") /\ UNCHANGED merr
    /\ UNCHANGED <<fetcher, simulator, norm, host, overlays, msched, menv, mcall, mount,
                   mtodo, restarted, crashed, released>>

\* killProcesses: fuser -km; its outcome changes nothing.
cleanupMount_killProcesses(t) ==
    /\ mpc[t] = "cm_kill"
    /\ MGoto(t, "cm_force")
    /\ UNCHANGED <<fetcher, simulator, norm, host, overlays, msched, menv, mlocals,
                   restarted, crashed, released>>

\* syscall.Unmount(mount.MergedDir, MNT_FORCE|MNT_DETACH)
cleanupMount_ForceUnmount(t) ==
    /\ mpc[t] = "cm_force"
    /\ Unmount(t, "cm_force", "cm_done")

\* Mutant: cleanupDirs drops the error of os.RemoveAll.
cleanupDirs_IgnoresError(t) ==
    /\ mpc[t] = "cm_dirs"
    /\ \/ /\ mountTable[mount[t]] = 0
          /\ overlayDirs' = [overlayDirs EXCEPT ![mount[t]] = FALSE]
       \/ /\ mountTable[mount[t]] > 0 \/ MFaulty(t)
          /\ UNCHANGED overlayDirs
    /\ cleanupMount_Returns(t, "")
    /\ UNCHANGED <<fetcher, simulator, norm, lowerDirs, mountTable, stateFile, clock,
                   overlays, msched, menv, mcall, mount, mtodo, restarted, crashed, released>>

\* cleanupDirs: os.RemoveAll of {BaseDir}/{mount.ID}, which fails while a
\* mount is on the merged directory.
cleanupDirs(t) ==
    /\ mpc[t] = "cm_dirs"
    /\ \/ /\ mountTable[mount[t]] = 0
          /\ overlayDirs' = [overlayDirs EXCEPT ![mount[t]] = FALSE]
          /\ cleanupMount_Returns(t, "")
       \/ /\ mountTable[mount[t]] > 0 \/ MFaulty(t)
          /\ UNCHANGED overlayDirs
          /\ cleanupMount_Returns(t, "removeall")
    /\ UNCHANGED <<fetcher, simulator, norm, lowerDirs, mountTable, stateFile, clock,
                   overlays, msched, menv, mcall, mount, mtodo, restarted, crashed, released>>

\* ------------------------------------------------------ CleanupOverlay
CleanupOverlay(t, containerID, e) ==
    /\ containerID \in ContainerIDs
    /\ MCall(t, "CleanupOverlay", containerID, "", e, "cl_lookup")

\* Mutant: an unregistered container id is an error.
CleanupOverlay_Lookup_NotFound(t) ==
    /\ mpc[t] = "cl_lookup"
    /\ IF overlays[mcall[t].containerID] = NoMount
         THEN MReturns(t, "ErrOverlayNotFound", NoMount) /\ UNCHANGED mount
         ELSE /\ mount' = [mount EXCEPT ![t] = overlays[mcall[t].containerID]]
              /\ MGoto(t, "cm_check")
    /\ UNCHANGED <<fetcher, simulator, norm, host, overlays, msched, menv, mcall, mtodo,
                   merr, restarted, crashed, released>>

\* mount, exists := m.overlays[containerID]
CleanupOverlay_Lookup(t) ==
    /\ mpc[t] = "cl_lookup"
    /\ IF overlays[mcall[t].containerID] = NoMount
         THEN MReturns(t, "", NoMount) /\ UNCHANGED mount
         ELSE /\ mount' = [mount EXCEPT ![t] = overlays[mcall[t].containerID]]
              /\ MGoto(t, "cm_check")
    /\ UNCHANGED <<fetcher, simulator, norm, host, overlays, msched, menv, mcall, mtodo,
                   merr, restarted, crashed, released>>

\* After cleanupMount: its error is returned, or the entry is deleted and
\* the state persisted.
CleanupOverlay_Done(t) ==
    /\ mpc[t] = "cm_done"
    /\ mcall[t].op = "CleanupOverlay"
    /\ IF merr[t].cleanup # ""
         THEN /\ MReturns(t, merr[t].cleanup, NoMount)
              /\ UNCHANGED <<overlays, stateFile, released>>
         ELSE /\ overlays' = [overlays EXCEPT ![mcall[t].containerID] = NoMount]
              /\ stateFile' \in persistState(t, overlays')
              /\ released' = {mcall[t].containerID}
              /\ MReturns(t, "", NoMount)
    /\ UNCHANGED <<fetcher, simulator, norm, lowerDirs, overlayDirs, mountTable, clock,
                   msched, menv, mlocals, restarted, crashed>>

\* ---------------------------------------------------------- CleanupAll
CleanupAll(t, e) ==
    /\ mpc[t] = "idle"
    /\ MCall(t, "CleanupAll", <<>>, "", e, "ca_loop")

Registered(reg) == {c \in ContainerIDs : reg[c] # NoMount}

\* The range over m.overlays starts.
CleanupAll_Range(t) ==
    /\ mpc[t] = "ca_loop"
    /\ merr[t].last = "" /\ mtodo[t] = {} /\ mount[t] = NoMount
    /\ Registered(overlays) # {}
    /\ \E c \in Registered(overlays) :
          /\ mtodo' = [mtodo EXCEPT ![t] = Registered(overlays) \ {c}]
          /\ mount' = [mount EXCEPT ![t] = overlays[c]]
    /\ MGoto(t, "cm_check")
    /\ UNCHANGED <<fetcher, simulator, norm, host, overlays, msched, menv, mcall, merr,
                   restarted, crashed, released>>

\* Mutant: the range ends at the first cleanup that fails.
CleanupAll_Done_StopsAtError(t) ==
    /\ mpc[t] = "cm_done"
    /\ mcall[t].op = "CleanupAll"
    /\ merr' = [merr EXCEPT ![t].last =
                    IF merr[t].cleanup # "" THEN merr[t].cleanup ELSE @]
    /\ IF mtodo[t] = {} \/ merr[t].cleanup # ""
         THEN MGoto(t, "ca_clear") /\ UNCHANGED <<mtodo, mount>>
         ELSE \E c \in mtodo[t] :
                /\ mtodo' = [mtodo EXCEPT ![t] = @ \ {c}]
                /\ mount' = [mount EXCEPT ![t] = overlays[c]]
                /\ MGoto(t, "cm_check")
    /\ UNCHANGED <<fetcher, simulator, norm, host, overlays, msched, menv, mcall,
                   restarted, crashed, released>>

\* After cleanupMount: lastErr = err, and the next entry of the range.
CleanupAll_Done(t) ==
    /\ mpc[t] = "cm_done"
    /\ mcall[t].op = "CleanupAll"
    /\ merr' = [merr EXCEPT ![t].last =
                    IF merr[t].cleanup # "" THEN merr[t].cleanup ELSE @]
    /\ IF mtodo[t] = {}
         THEN MGoto(t, "ca_clear") /\ UNCHANGED <<mtodo, mount>>
         ELSE \E c \in mtodo[t] :
                /\ mtodo' = [mtodo EXCEPT ![t] = @ \ {c}]
                /\ mount' = [mount EXCEPT ![t] = overlays[c]]
                /\ MGoto(t, "cm_check")
    /\ UNCHANGED <<fetcher, simulator, norm, host, overlays, msched, menv, mcall,
                   restarted, crashed, released>>

\* The map is replaced by an empty one, state.json removed and lastErr
\* returned.
CleanupAll_Clear(t) ==
    /\ \/ mpc[t] = "ca_clear"
       \/ mpc[t] = "ca_loop" /\ Registered(overlays) = {}
    /\ overlays' = [c \in ContainerIDs |-> NoMount]
    /\ stateFile' = NoState
    /\ MReturns(t, merr[t].last, NoMount)
    /\ UNCHANGED <<fetcher, simulator, norm, lowerDirs, overlayDirs, mountTable, clock,
                   msched, menv, mlocals, restarted, crashed, released>>

\* ----------------------------------------------- RecoverOrphanedMounts
RecoverOrphanedMounts(t, e) ==
    /\ mpc[t] = "idle"
    /\ MCall(t, "RecoverOrphanedMounts", <<>>, "", e, "ro_read")

\* Mutant: a state.json that cannot be parsed is kept and reported.
RecoverOrphanedMounts_Read_KeepsMalformed(t) ==
    /\ mpc[t] = "ro_read"
    /\ \/ /\ stateFile.kind = "absent"
          /\ MReturns(t, "", NoMount)
          /\ UNCHANGED <<stateFile, mtodo>>
       \/ /\ stateFile.kind # "absent"
          /\ MFaulty(t)
          /\ MReturns(t, "read", NoMount)
          /\ UNCHANGED <<stateFile, mtodo>>
       \/ /\ stateFile.kind = "malformed"
          /\ MReturns(t, "unmarshal", NoMount)
          /\ UNCHANGED <<stateFile, mtodo>>
       \/ /\ stateFile.kind = "json"
          /\ mtodo' = [mtodo EXCEPT ![t] = Registered(stateFile.mounts)]
          /\ MGoto(t, "ro_loop")
          /\ UNCHANGED stateFile
    /\ UNCHANGED <<fetcher, simulator, norm, lowerDirs, overlayDirs, mountTable, clock,
                   overlays, msched, menv, mcall, mount, merr, restarted, crashed,
                   released>>

\* os.ReadFile(statePath) and json.Unmarshal; the range over the state
\* starts.
RecoverOrphanedMounts_Read(t) ==
    /\ mpc[t] = "ro_read"
    /\ \/ /\ stateFile.kind = "absent"
          /\ MReturns(t, "", NoMount)
          /\ UNCHANGED <<stateFile, mtodo>>
       \/ /\ stateFile.kind # "absent"
          /\ MFaulty(t)
          /\ MReturns(t, "read", NoMount)
          /\ UNCHANGED <<stateFile, mtodo>>
       \/ /\ stateFile.kind = "malformed"
          /\ stateFile' = NoState
          /\ MReturns(t, "", NoMount)
          /\ UNCHANGED mtodo
       \/ /\ stateFile.kind = "json"
          /\ mtodo' = [mtodo EXCEPT ![t] = Registered(stateFile.mounts)]
          /\ MGoto(t, "ro_loop")
          /\ UNCHANGED stateFile
    /\ UNCHANGED <<fetcher, simulator, norm, lowerDirs, overlayDirs, mountTable, clock,
                   overlays, msched, menv, mcall, mount, merr, restarted, crashed, released>>

\* The next entry of the state is cleaned up; after the last one
\* state.json is removed.
RecoverOrphanedMounts_Next(t) ==
    /\ mpc[t] = "ro_loop"
    /\ IF mtodo[t] = {}
         THEN /\ stateFile' = NoState
              /\ released' = IF mcall[t].first /\ crashed
                                THEN Registered(stateFile.mounts) ELSE {}
              /\ MReturns(t, "", NoMount)
              /\ UNCHANGED <<mtodo, mount>>
         ELSE \E c \in mtodo[t] :
                /\ mtodo' = [mtodo EXCEPT ![t] = @ \ {c}]
                /\ mount' = [mount EXCEPT ![t] = stateFile.mounts[c]]
                /\ MGoto(t, "cm_check")
                /\ UNCHANGED <<stateFile, released>>
    /\ UNCHANGED <<fetcher, simulator, norm, lowerDirs, overlayDirs, mountTable, clock,
                   overlays, msched, menv, mcall, merr, restarted, crashed>>

\* After cleanupMount: an error is only logged.
RecoverOrphanedMounts_Done(t) ==
    /\ mpc[t] = "cm_done"
    /\ mcall[t].op = "RecoverOrphanedMounts"
    /\ MGoto(t, "ro_loop")
    /\ UNCHANGED <<fetcher, simulator, norm, host, overlays, msched, menv, mlocals,
                   restarted, crashed, released>>

\* ---------------------------------------------------------- GetOverlay
\* The lookup under m.mu.RLock().
GetOverlay(t, containerID) ==
    /\ t \in msched
    /\ mpc[t] = "idle"
    /\ mu = 0
    /\ mcall' = [mcall EXCEPT ![t] = [op |-> "GetOverlay",
                     containerID |-> containerID, snapshotPath |-> "",
                     first |-> FALSE, after |-> FALSE, conc |-> FALSE]]
    /\ mpc' = [mpc EXCEPT ![t] = "done"]
    /\ mret' = [mret EXCEPT ![t] = [err |-> "", mount |-> overlays[containerID]]]
    /\ UNCHANGED <<fetcher, simulator, norm, host, overlays, mu, msched, menv, mount,
                   mtodo, merr, restarted, crashed, released>>

NoErr == [cleanup |-> "", last |-> ""]

\* The caller takes the result; the goroutine is free for the next call.
MReturn(t) ==
    /\ mpc[t] = "done"
    /\ mpc' = [mpc EXCEPT ![t] = "idle"]
    /\ menv' = [menv EXCEPT ![t] = "ok"]
    /\ mcall' = [mcall EXCEPT ![t] = NoCall]
    /\ mount' = [mount EXCEPT ![t] = NoMount]
    /\ mtodo' = [mtodo EXCEPT ![t] = {}]
    /\ merr' = [merr EXCEPT ![t] = NoErr]
    /\ mret' = [mret EXCEPT ![t] = NoMRet]
    /\ UNCHANGED <<fetcher, simulator, norm, host, overlays, mu, msched, restarted, crashed, released>>

MInCall(t) == mpc[t] \notin {"idle", "done"}

\* A goroutine is about to write state.json, or is writing it.
Writing(t) ==
    \/ mpc[t] = "co_register"
    \/ /\ mpc[t] = "cm_done" /\ mcall[t].op = "CleanupOverlay"
       /\ merr[t].cleanup = ""
       /\ Registered(overlays) \ {mcall[t].containerID} # {}

\* The process dies and is started again: the registry and the goroutines
\* are gone, the host stays as it is; a write of state.json under way may
\* be cut short.
MCrash ==
    /\ msched # {}
    /\ ~restarted
    /\ \A t \in Goroutines : MInCall(t) => MFaulty(t)
    /\ \/ UNCHANGED stateFile
       \/ /\ \E t \in Goroutines : Writing(t)
          /\ stateFile' = Malformed
    /\ overlays' = [c \in ContainerIDs |-> NoMount]
    /\ mu' = 0
    /\ mpc' = [t \in Goroutines |-> "idle"]
    /\ menv' = [t \in Goroutines |-> "ok"]
    /\ mcall' = [t \in Goroutines |-> NoCall]
    /\ mount' = [t \in Goroutines |-> NoMount]
    /\ mtodo' = [t \in Goroutines |-> {}]
    /\ merr' = [t \in Goroutines |-> NoErr]
    /\ mret' = [t \in Goroutines |-> NoMRet]
    /\ restarted' = TRUE
    /\ crashed' = TRUE
    /\ released' = {}
    /\ UNCHANGED <<fetcher, simulator, norm, lowerDirs, overlayDirs, mountTable, clock,
                   msched>>

\* The steps of a running manager call.
MStep(t) ==
    \/ CreateOverlay_Validate(t)
    \/ CreateOverlay_GenerateID(t)
    \/ CreateOverlay_MkdirAll(t)
    \/ CreateOverlay_mountOverlay(t)
    \/ CreateOverlay_Register(t)
    \/ cleanupMount_isMounted(t)
    \/ cleanupMount_Unmount(t)
    \/ cleanupMount_LazyUnmount(t)
    \/ cleanupMount_killProcesses(t)
    \/ cleanupMount_ForceUnmount(t)
    \/ cleanupDirs(t)
    \/ CleanupOverlay_Lookup(t)
    \/ CleanupOverlay_Done(t)
    \/ CleanupAll_Range(t)
    \/ CleanupAll_Done(t)
    \/ CleanupAll_Clear(t)
    \/ RecoverOrphanedMounts_Read(t)
    \/ RecoverOrphanedMounts_Next(t)
    \/ RecoverOrphanedMounts_Done(t)

ManagerNext ==
    \/ \E t \in Goroutines, c \in ContainerIDs, p \in SnapshotPaths,
          e \in {"ok", "faulty"} : CreateOverlay(t, c, p, e)
    \/ \E t \in Goroutines, c \in ContainerIDs, e \in {"ok", "faulty"} :
         CleanupOverlay(t, c, e)
    \/ \E t \in Goroutines, e \in {"ok", "faulty"} : CleanupAll(t, e)
    \/ \E t \in Goroutines, e \in {"ok", "faulty"} :
         RecoverOrphanedMounts(t, e)
    \/ \E t \in Goroutines, c \in ContainerIDs : GetOverlay(t, c)
    \/ \E t \in Goroutines : MStep(t)
    \/ \E t \in Goroutines : MReturn(t)
    \/ MCrash

\* CreateOverlay is called while other goroutines may hold m.mu: the call
\* is made, and m.mu.Lock() returns once the lock is free.
CreateOverlay_Call(t, containerID, snapshotPath, e) ==
    /\ t \in msched
    /\ mpc[t] = "idle"
    /\ LET same == {u \in Goroutines \ {t} :
                        /\ mpc[u] \notin {"idle", "done"}
                        /\ mcall[u].op = "CreateOverlay"
                        /\ mcall[u].containerID = containerID}
       IN  mcall' = [u \in Goroutines |->
                       IF u = t
                         THEN [op |-> "CreateOverlay",
                               containerID |-> containerID,
                               snapshotPath |-> snapshotPath, first |-> FALSE,
                               after |-> FALSE, conc |-> same # {}]
                         ELSE IF u \in same
                                THEN [mcall[u] EXCEPT !.conc = TRUE]
                                ELSE mcall[u]]
    /\ menv' = [menv EXCEPT ![t] = e]
    /\ mpc' = [mpc EXCEPT ![t] = "co_lock"]
    /\ UNCHANGED <<fetcher, simulator, norm, host, overlays, mu, msched, mount, mtodo,
                   merr, mret, restarted, crashed, released>>

CreateOverlay_Lock(t) ==
    /\ mpc[t] = "co_lock"
    /\ mu = 0
    /\ mu' = t
    /\ mcall' = [mcall EXCEPT ![t].first = restarted,
                              ![t].after = mcall[t].containerID \in released]
    /\ mpc' = [mpc EXCEPT ![t] = "co_check"]
    /\ restarted' = FALSE
    /\ released' = {}
    /\ UNCHANGED <<fetcher, simulator, norm, host, overlays, msched, menv, mount, mtodo,
                   merr, mret, crashed>>

\* The steps of the calls that goroutines make concurrently.
MConcStep(t) ==
    \/ CreateOverlay_Lock(t)
    \/ CreateOverlay_Validate(t)
    \/ CreateOverlay_GenerateID(t)
    \/ CreateOverlay_MkdirAll(t)
    \/ CreateOverlay_mountOverlay(t)
    \/ CreateOverlay_Register(t)
    \/ cleanupMount_isMounted(t)
    \/ cleanupMount_Unmount(t)
    \/ cleanupMount_LazyUnmount(t)
    \/ cleanupMount_killProcesses(t)
    \/ cleanupMount_ForceUnmount(t)
    \/ cleanupDirs(t)
    \/ CleanupOverlay_Lookup(t)
    \/ CleanupOverlay_Done(t)
    \/ CleanupAll_Range(t)
    \/ CleanupAll_Done(t)
    \/ CleanupAll_Clear(t)

\* Two goroutines of one process calling CreateOverlay, CleanupOverlay,
\* CleanupAll and GetOverlay in every interleaving; the unmounts and
\* removals of CleanupOverlay may fail.
ManagerConcNext ==
    \/ \E t \in Goroutines, c \in ContainerIDs :
         CreateOverlay_Call(t, c, "snapshot", "ok")
    \/ \E t \in Goroutines, c \in ContainerIDs, e \in {"ok", "faulty"} :
         CleanupOverlay(t, c, e)
    \/ \E t \in Goroutines : CleanupAll(t, "ok")
    \/ \E t \in Goroutines, c \in ContainerIDs : GetOverlay(t, c)
    \/ \E t \in Goroutines : MConcStep(t)
    \/ \E t \in Goroutines : MReturn(t)

InitManagerConc ==
    InitWith({}, FALSE, {}) /\ NormIdle /\ SimulatorIdle /\ ManagerInit({1, 2})

SpecManagerConc == InitManagerConc /\ [][ManagerConcNext]_vars

\* One goroutine calling the manager, with faults and restarts.
InitManager ==
    /\ InitWith({}, FALSE, {})
    /\ NormIdle
    /\ SimulatorIdle
    /\ ManagerInit({1})

SpecManager == InitManager /\ [][ManagerNext]_vars

\* One goroutine calling the manager in a process that stays up, with
\* faults.
ManagerLiveNext ==
    \/ \E t \in Goroutines, c \in ContainerIDs, p \in SnapshotPaths,
          e \in {"ok", "faulty"} : CreateOverlay(t, c, p, e)
    \/ \E t \in Goroutines, c \in ContainerIDs, e \in {"ok", "faulty"} :
         CleanupOverlay(t, c, e)
    \/ \E t \in Goroutines, e \in {"ok", "faulty"} : CleanupAll(t, e)
    \/ \E t \in Goroutines, e \in {"ok", "faulty"} :
         RecoverOrphanedMounts(t, e)
    \/ \E t \in Goroutines, c \in ContainerIDs : GetOverlay(t, c)
    \/ \E t \in Goroutines : MStep(t)
    \/ \E t \in Goroutines : MReturn(t)

SpecManagerLive == InitManager /\ [][ManagerLiveNext]_vars

\* ------------------------------------------------ hivesim start options
\* ClientDefinition.HasSnapshot
HasSnapshot(c) == c.Snapshot # NilSnapshot /\ c.Snapshot.Network # ""

\* Mutant: the container path is returned as configured.
SnapshotContainerPath_NoDefault(c) == c.ContainerPath

\* ClientSnapshotConfig.SnapshotContainerPath
SnapshotContainerPath(c) ==
    IF c.ContainerPath # "" THEN c.ContainerPath ELSE "/data"

\* WithClientSnapshot: nil, or the closure with what it captures (snap,
\* client and the container path computed when the option is built).
WithClientSnapshot(client) ==
    IF ~HasSnapshot(client)
      THEN NilOption
      ELSE [snap |-> client.Snapshot, client |-> client,
            containerPath |-> SnapshotContainerPath(client.Snapshot)]

\* The closure of WithClientSnapshot applied to setup.config.Overlays.
WithClientSnapshot_apply(option, overlays_) ==
    Append(overlays_,
           OverlaySpec("", option.containerPath, option.snap.Network,
                       option.client.Name, option.snap.BlockNumber,
                       option.snap.URL))

\* The closure of WithOverlaySnapshot applied to setup.config.Overlays.
WithOverlaySnapshot_apply(snapshotPath, containerPath, overlays_) ==
    Append(overlays_, OverlaySpec(snapshotPath, containerPath, "", "", "", ""))

\* A simulator has a client definition of the registry.
InitOptions ==
    /\ InitWith({}, FALSE, {})
    /\ NormIdle
    /\ ManagerInit({})
    /\ EngineIdle
    /\ HivesimIdle
    /\ clientDef \in ClientDefinitions
    /\ startOption = NoOption
    /\ setupOverlays = <<>>
    /\ applied = ""

\* snapshotOpt := hivesim.WithClientSnapshot(clientDef)
Options_WithClientSnapshot ==
    /\ startOption = NoOption
    /\ startOption' = WithClientSnapshot(clientDef)
    /\ UNCHANGED <<fetcher, norm, manager, engine, hivesim, clientDef, setupOverlays,
                   applied>>

\* StartClient applies the option of WithClientSnapshot; the caller leaves
\* a nil option out.
Options_Apply ==
    /\ startOption \notin {NoOption, NilOption}
    /\ Len(setupOverlays) < MaxOverlays
    /\ setupOverlays' = WithClientSnapshot_apply(startOption, setupOverlays)
    /\ applied' = "WithClientSnapshot"
    /\ UNCHANGED <<fetcher, norm, manager, engine, hivesim, clientDef, startOption>>

\* StartClient applies an option of WithOverlaySnapshot.
Options_ApplyOverlaySnapshot(snapshotPath, containerPath) ==
    /\ Len(setupOverlays) < MaxOverlays
    /\ setupOverlays' =
           WithOverlaySnapshot_apply(snapshotPath, containerPath, setupOverlays)
    /\ applied' = "WithOverlaySnapshot"
    /\ UNCHANGED <<fetcher, norm, manager, engine, hivesim, clientDef, startOption>>

OptionsNext ==
    \/ Options_WithClientSnapshot
    \/ Options_Apply
    \/ \E sp \in {"/snapshots/a"}, cp \in {"/data", "/chain"} :
         Options_ApplyOverlaySnapshot(sp, cp)

\* Start options built from a client definition and applied to a
\* clientSetup, in any order with other overlay options.
SpecOptions == InitOptions /\ [][OptionsNext]_vars

\* ------------------------------------- gas benchmark: engine and warmup
Methods == {"engine_newPayloadV3", "engine_forkchoiceUpdatedV3", "eth_call"}
\* payload.RPCCall: the method and whether its params parse.
RPCCalls == [Method : Methods, Params : {"valid", "malformed"}]

RECURSIVE SeqsUpTo(_, _)
SeqsUpTo(S, n) ==
    IF n = 0 THEN {<<>>}
    ELSE LET shorter == SeqsUpTo(S, n - 1)
         IN  shorter \cup
             {Append(q, x) : q \in {r \in shorter : Len(r) = n - 1}, x \in S}

\* The payloads of a scenario: nil, or up to MaxCalls calls.
Payloads == {NilPayload} \cup {[Calls |-> q] : q \in SeqsUpTo(RPCCalls, MaxCalls)}
WarmupConfigs == [Enabled : BOOLEAN, Iterations : 0..MaxIterations]

\* RPCCall.IsNewPayload and RPCCall.IsForkchoiceUpdated
IsNewPayload(call) == call.Method = "engine_newPayloadV3"
IsForkchoiceUpdated(call) == call.Method = "engine_forkchoiceUpdatedV3"

\* Parser.ParseExecutablePayload returns no error.
Parses(call) ==
    /\ IsNewPayload(call) \/ IsForkchoiceUpdated(call)
    /\ call.Params = "valid"

\* What the engine API may answer to the request of a call: "error" for a
\* request that failed (transport, HTTP status, RPC error, undecodable
\* result), else the payload status; "none" when no request is made.  A
\* request under a done context fails.
Responses(call, done) ==
    IF ~Parses(call) THEN {"none"}
    ELSE IF done THEN {"error"}
    ELSE {"error", "VALID", "INVALID", "SYNCING"}

\* engineClient.ExecutePayload: the error it returns, "" for nil.
ExecutePayload(call, response) ==
    IF ~Parses(call) THEN "failed to parse call"
    ELSE IF IsNewPayload(call)
      THEN IF response = "error" THEN "newPayload failed"
           ELSE IF response # "VALID" THEN "payload rejected with status"
           ELSE ""
    ELSE IF IsForkchoiceUpdated(call)
      THEN IF response = "error" THEN "forkchoiceUpdated failed" ELSE ""
    ELSE "unsupported method"

\* The timing of the call at an index; the index stands for the duration
\* measured for that call.
CallTiming(index, call) == [index |-> index, Method |-> call.Method]

\* The condition under which Execute skips the warmup:
\* !cfg.Enabled || p == nil || len(p.Calls) == 0
Skipped(cfg, p) ==
    IF ~cfg.Enabled \/ p = NilPayload THEN TRUE ELSE Len(p.Calls) = 0

\* Where ExecutePayloads returns to.
AfterExecutePayloads == IF entered = "Execute" THEN "w_after" ELSE "done"

\* The simulator calls warmup.Execute or engineClient.ExecutePayloads.
InitEngine ==
    /\ InitWith({}, FALSE, {})
    /\ NormIdle
    /\ ManagerInit({})
    /\ OptionsIdle
    /\ HivesimIdle
    /\ entered \in {"Execute", "ExecutePayloads"}
    /\ wPayload \in IF entered = "Execute" THEN Payloads
                    ELSE Payloads \ {NilPayload}
    /\ wCfg \in IF entered = "Execute" THEN WarmupConfigs
                ELSE {[Enabled |-> FALSE, Iterations |-> 0]}
    /\ ctxDone \in BOOLEAN
    /\ epc = IF entered = "Execute" THEN "w_start" ELSE "x_loop"
    /\ wIter = 0
    /\ wResult = NoWarmupResult
    /\ wRet = NoWRet
    /\ xIdx = 0
    /\ timings = <<>>
    /\ xRet = NoXRet
    /\ sent = <<>>
    /\ nExec = 0
    /\ failedIters = <<>>
    /\ sawDone = FALSE

\* Execute: warmup is disabled or there is nothing to run.
Execute_Skip ==
    /\ epc = "w_start"
    /\ Skipped(wCfg, wPayload)
    /\ wRet' = [returned |-> TRUE, err |-> ""]
    /\ epc' = "done"
    /\ UNCHANGED <<fetcher, norm, manager, options, hivesim, entered, wPayload, wCfg,
                   ctxDone, wIter, wResult, xIdx, timings, xRet, sent, nExec,
                   failedIters, sawDone>>

\* Execute: the warmup phase starts.
Execute_Start ==
    /\ epc = "w_start"
    /\ ~Skipped(wCfg, wPayload)
    /\ wIter' = 0
    /\ epc' = "w_loop"
    /\ UNCHANGED <<fetcher, norm, manager, options, hivesim, entered, wPayload, wCfg,
                   ctxDone, wResult, wRet, xIdx, timings, xRet, sent, nExec,
                   failedIters, sawDone>>

\* Execute: the select before an iteration finds ctx done.
Execute_CtxDone ==
    /\ epc = "w_loop"
    /\ wIter < wCfg.Iterations
    /\ ctxDone
    /\ sawDone' = TRUE
    /\ wRet' = [returned |-> TRUE, err |-> "ctx.Err()"]
    /\ epc' = "done"
    /\ UNCHANGED <<fetcher, norm, manager, options, hivesim, entered, wPayload, wCfg,
                   ctxDone, wIter, wResult, xIdx, timings, xRet, sent, nExec,
                   failedIters>>

\* Execute: an iteration calls ExecutePayloads.
Execute_Iteration ==
    /\ epc = "w_loop"
    /\ wIter < wCfg.Iterations
    /\ ~ctxDone
    /\ nExec' = nExec + 1
    /\ xIdx' = 0
    /\ timings' = <<>>
    /\ xRet' = NoXRet
    /\ sent' = <<>>
    /\ epc' = "x_loop"
    /\ UNCHANGED <<fetcher, norm, manager, options, hivesim, entered, wPayload, wCfg,
                   ctxDone, wIter, wResult, wRet, failedIters, sawDone>>

\* ExecutePayloads: the call at xIdx succeeds.
ExecutePayloads_Call(response) ==
    /\ epc = "x_loop"
    /\ xIdx < Len(wPayload.Calls)
    /\ LET call == wPayload.Calls[xIdx + 1]
           err == ExecutePayload(call, response)
       IN  /\ response \in Responses(call, ctxDone)
           /\ err = ""
           /\ sent' = Append(sent, [index |-> xIdx, response |-> response,
                                    err |-> err])
           /\ timings' = Append(timings, CallTiming(xIdx, call))
    /\ xIdx' = xIdx + 1
    /\ UNCHANGED <<fetcher, norm, manager, options, hivesim, entered, wPayload, wCfg,
                   ctxDone, epc, wIter, wResult, wRet, xRet, nExec,
                   failedIters, sawDone>>

\* Mutant: a call that fails is left out and the loop goes on.
ExecutePayloads_CallErr_Continue(response) ==
    /\ epc = "x_loop"
    /\ xIdx < Len(wPayload.Calls)
    /\ LET call == wPayload.Calls[xIdx + 1]
           err == ExecutePayload(call, response)
       IN  /\ response \in Responses(call, ctxDone)
           /\ err # ""
           /\ sent' = Append(sent, [index |-> xIdx, response |-> response,
                                    err |-> err])
    /\ xIdx' = xIdx + 1
    /\ UNCHANGED <<fetcher, norm, manager, options, hivesim, entered, wPayload, wCfg,
                   ctxDone, epc, wIter, wResult, wRet, timings, xRet, nExec,
                   failedIters, sawDone>>

\* ExecutePayloads: the call at xIdx fails and ExecutePayloads returns.
ExecutePayloads_CallErr(response) ==
    /\ epc = "x_loop"
    /\ xIdx < Len(wPayload.Calls)
    /\ LET call == wPayload.Calls[xIdx + 1]
           err == ExecutePayload(call, response)
       IN  /\ response \in Responses(call, ctxDone)
           /\ err # ""
           /\ sent' = Append(sent, [index |-> xIdx, response |-> response,
                                    err |-> err])
           /\ xRet' = [returned |-> TRUE, timings |-> timings,
                       err |-> CallErr(xIdx, call.Method, err)]
    /\ failedIters' =
           IF entered = "Execute" THEN Append(failedIters, nExec)
           ELSE failedIters
    /\ epc' = AfterExecutePayloads
    /\ UNCHANGED <<fetcher, norm, manager, options, hivesim, entered, wPayload, wCfg,
                   ctxDone, wIter, wResult, wRet, xIdx, timings, nExec,
                   sawDone>>

\* ExecutePayloads: the loop is over.
ExecutePayloads_Return ==
    /\ epc = "x_loop"
    /\ xIdx = Len(wPayload.Calls)
    /\ xRet' = [returned |-> TRUE, timings |-> timings, err |-> NilErr]
    /\ epc' = AfterExecutePayloads
    /\ UNCHANGED <<fetcher, norm, manager, options, hivesim, entered, wPayload, wCfg,
                   ctxDone, wIter, wResult, wRet, xIdx, timings, sent, nExec,
                   failedIters, sawDone>>

\* Mutant: a failed iteration ends the warmup.
Execute_AfterIteration_Stop ==
    /\ epc = "w_after"
    /\ wResult' =
           [wResult EXCEPT
              !.IterationDurations = Append(@, wIter + 1),
              !.Iterations = @ + 1,
              !.Errors = IF xRet.err # NilErr THEN Append(@, wIter + 1) ELSE @]
    /\ wIter' = wIter + 1
    /\ epc' = IF xRet.err # NilErr THEN "done" ELSE "w_loop"
    /\ wRet' = IF xRet.err # NilErr
                 THEN [returned |-> TRUE, err |-> "iteration failed"]
                 ELSE wRet
    /\ UNCHANGED <<fetcher, norm, manager, options, hivesim, entered, wPayload, wCfg,
                   ctxDone, xIdx, timings, xRet, sent, nExec, failedIters,
                   sawDone>>

\* Execute: ExecutePayloads has returned; the iteration is counted and its
\* error, if any, recorded, and the loop goes on.
Execute_AfterIteration ==
    /\ epc = "w_after"
    /\ wResult' =
           [wResult EXCEPT
              !.IterationDurations = Append(@, wIter + 1),
              !.Iterations = @ + 1,
              !.Errors = IF xRet.err # NilErr THEN Append(@, wIter + 1) ELSE @]
    /\ wIter' = wIter + 1
    /\ epc' = "w_loop"
    /\ UNCHANGED <<fetcher, norm, manager, options, hivesim, entered, wPayload, wCfg,
                   ctxDone, wRet, xIdx, timings, xRet, sent, nExec,
                   failedIters, sawDone>>

\* Execute: the loop is over.
Execute_Completed ==
    /\ epc = "w_loop"
    /\ wIter >= wCfg.Iterations
    /\ wResult' = [wResult EXCEPT !.Executed = TRUE]
    /\ wRet' = [returned |-> TRUE, err |-> ""]
    /\ epc' = "done"
    /\ UNCHANGED <<fetcher, norm, manager, options, hivesim, entered, wPayload, wCfg,
                   ctxDone, wIter, xIdx, timings, xRet, sent, nExec,
                   failedIters, sawDone>>

\* The context is cancelled, or its deadline passes, while a call runs.
CtxCancel ==
    /\ epc \notin {"idle", "done"}
    /\ ~ctxDone
    /\ ctxDone' = TRUE
    /\ UNCHANGED <<fetcher, norm, manager, options, hivesim, entered, wPayload, wCfg,
                   epc, wIter, wResult, wRet, xIdx, timings, xRet, sent,
                   nExec, failedIters, sawDone>>

EngineResponses == {"none", "error", "VALID", "INVALID", "SYNCING"}

EngineNext ==
    \/ Execute_Skip
    \/ Execute_Start
    \/ Execute_CtxDone
    \/ Execute_Iteration
    \/ \E r \in EngineResponses : ExecutePayloads_Call(r)
    \/ \E r \in EngineResponses : ExecutePayloads_CallErr(r)
    \/ ExecutePayloads_Return
    \/ Execute_AfterIteration
    \/ Execute_Completed
    \/ CtxCancel

\* One call of warmup.Execute or of ExecutePayloads, on any payload, with
\* an engine API that may fail or reject and a context that may end.
SpecEngine == InitEngine /\ [][EngineNext]_vars

\* ------------------------------------------- hivesim SnapshotManager
HsReturns(e, path) ==
    /\ hsPc' = "done"
    /\ hsRet' = [err |-> e, path |-> path]

\* os.RemoveAll(destDir) on a failure of downloadSnapshot.
HsRemoveAll ==
    /\ hsDirs' = [hsDirs EXCEPT ![hsBlock] = FALSE]
    /\ hsArchive' = [hsArchive EXCEPT ![hsBlock] = FALSE]
    /\ hsData' = [hsData EXCEPT ![hsBlock] = "absent"]
    /\ hsMetadata' = [hsMetadata EXCEPT ![hsBlock] = "absent"]
    /\ hsFetched' = hsFetched \ {hsBlock}

\* A simulator calls EnsureSnapshotAt (EnsureSnapshot passes "latest").
SnapshotManager_EnsureSnapshotAt(block, e) ==
    /\ hsPc = "idle"
    /\ hsBlock' = block
    /\ hsEnv' = e
    /\ hsPc' = "stat"
    /\ hsRet' = NoHsRet
    /\ hsReqs' = NoHsReqs
    /\ hsWas' = (block \in hsFetched)
    /\ UNCHANGED <<fetcher, norm, manager, options, engine, hsDisk, hsFetched>>

\* os.Stat(extractedDir) and os.Stat(metadataPath): the cache test.
SnapshotManager_Stat ==
    /\ hsPc = "stat"
    /\ IF hsData[hsBlock] # "absent" /\ hsMetadata[hsBlock] # "absent"
         THEN HsReturns("", hsExtractedDir(hsBlock))
         ELSE hsPc' = "mkdir" /\ UNCHANGED hsRet
    /\ UNCHANGED <<fetcher, norm, manager, options, engine, hsDisk, hsEnv,
                   hsBlock, hsReqs, hsFetched, hsWas>>

\* downloadSnapshot: os.MkdirAll(destDir).
SnapshotManager_MkdirAll ==
    /\ hsPc = "mkdir"
    /\ \/ /\ hsEnv = "faulty"
          /\ HsReturns("mkdir", NoPath)
          /\ UNCHANGED hsDirs
       \/ /\ hsDirs' = [hsDirs EXCEPT ![hsBlock] = TRUE]
          /\ hsPc' = "download"
          /\ UNCHANGED hsRet
    /\ UNCHANGED <<fetcher, norm, manager, options, engine, hsArchive, hsData,
                   hsMetadata, hsEnv, hsBlock, hsReqs, hsFetched, hsWas>>

\* downloadSnapshot: downloadFile fetched the archive.
SnapshotManager_downloadFile ==
    /\ hsPc = "download"
    /\ hsReqs' = [hsReqs EXCEPT !.archive = @ + 1]
    /\ hsArchive' = [hsArchive EXCEPT ![hsBlock] = TRUE]
    /\ hsPc' = "mkdir_data"
    /\ UNCHANGED <<fetcher, norm, manager, options, engine, hsDirs, hsData,
                   hsMetadata, hsEnv, hsBlock, hsRet, hsFetched, hsWas>>

\* downloadSnapshot: downloadFile failed (request, status other than 200,
\* os.Create or io.Copy); the entry directory is removed.
SnapshotManager_downloadFileErr ==
    /\ hsPc = "download"
    /\ hsEnv = "faulty"
    /\ hsReqs' = [hsReqs EXCEPT !.archive = @ + 1]
    /\ HsRemoveAll
    /\ HsReturns("download", NoPath)
    /\ UNCHANGED <<fetcher, norm, manager, options, engine, hsEnv, hsBlock,
                   hsWas>>

\* downloadSnapshot: os.MkdirAll(extractedDir) and extractTarZst.
SnapshotManager_extractTarZst ==
    /\ hsPc = "mkdir_data"
    /\ hsData' = [hsData EXCEPT ![hsBlock] = "full"]
    /\ hsPc' = "fetch_metadata"
    /\ UNCHANGED <<fetcher, norm, manager, options, engine, hsDirs, hsArchive,
                   hsMetadata, hsEnv, hsBlock, hsRet, hsReqs, hsFetched,
                   hsWas>>

\* downloadSnapshot: os.MkdirAll(extractedDir) or extractTarZst failed; the
\* entry directory is removed.
SnapshotManager_extractTarZstErr ==
    /\ hsPc = "mkdir_data"
    /\ hsEnv = "faulty"
    /\ HsRemoveAll
    /\ HsReturns("extract", NoPath)
    /\ UNCHANGED <<fetcher, norm, manager, options, engine, hsEnv, hsBlock,
                   hsReqs, hsWas>>

\* downloadSnapshot: fetchMetadata, whose error is only logged, and
\* saveMetadata, whose error is only logged too.  A failed os.WriteFile
\* leaves metadata.json as it was or, when the file was opened, truncated
\* or partly written.
SnapshotManager_saveMetadata ==
    /\ hsPc = "fetch_metadata"
    /\ hsReqs' = [hsReqs EXCEPT !.metadata = @ + 1]
    /\ \/ hsMetadata' = [hsMetadata EXCEPT ![hsBlock] = "valid"]
       \/ /\ hsEnv = "faulty"
          /\ \/ UNCHANGED hsMetadata
             \/ hsMetadata' = [hsMetadata EXCEPT ![hsBlock] = "corrupt"]
    /\ hsPc' = "remove_archive"
    /\ UNCHANGED <<fetcher, norm, manager, options, engine, hsDirs, hsArchive,
                   hsData, hsEnv, hsBlock, hsRet, hsFetched, hsWas>>

\* downloadSnapshot: os.Remove(archivePath), its error discarded, and the
\* return of EnsureSnapshotAt.
SnapshotManager_RemoveArchive ==
    /\ hsPc = "remove_archive"
    /\ \/ hsArchive' = [hsArchive EXCEPT ![hsBlock] = FALSE]
       \/ hsEnv = "faulty" /\ UNCHANGED hsArchive
    /\ hsFetched' = hsFetched \cup {hsBlock}
    /\ HsReturns("", hsExtractedDir(hsBlock))
    /\ UNCHANGED <<fetcher, norm, manager, options, engine, hsDirs, hsData,
                   hsMetadata, hsEnv, hsBlock, hsReqs, hsWas>>

\* The caller has the result; the next call may begin.
SnapshotManager_Return ==
    /\ hsPc = "done"
    /\ hsPc' = "idle"
    /\ UNCHANGED <<fetcher, norm, manager, options, engine, hsDisk, hsEnv,
                   hsBlock, hsRet, hsReqs, hsFetched, hsWas>>

InitHivesim ==
    /\ InitWith({}, FALSE, {})
    /\ NormIdle
    /\ ManagerInit({})
    /\ OptionsIdle
    /\ EngineIdle
    /\ HivesimIdle

HivesimNext ==
    \/ \E b \in HsEntries, e \in {"ok", "faulty"} :
         SnapshotManager_EnsureSnapshotAt(b, e)
    \/ SnapshotManager_Stat
    \/ SnapshotManager_MkdirAll
    \/ SnapshotManager_downloadFile
    \/ SnapshotManager_downloadFileErr
    \/ SnapshotManager_extractTarZst
    \/ SnapshotManager_extractTarZstErr
    \/ SnapshotManager_saveMetadata
    \/ SnapshotManager_RemoveArchive
    \/ SnapshotManager_Return

\* One simulator calling EnsureSnapshotAt any number of times on a cache
\* that starts empty, with faults.
SpecHivesim == InitHivesim /\ [][HivesimNext]_vars

\* ------------------------------------------------------------- claims
Entry(t) == blockNumber[t]
Succeeded(t) == pc[t] = "done" /\ ret[t].err = ""

\* C1: whenever EnsureSnapshot returns without error, .complete exists in
\* the entry directory of the resolved identifier and data/ is a directory
\* there, also when the marker write or the archive removal fails.
C1_SuccessImpliesMarker ==
    \A t \in Goroutines :
        Succeeded(t) => marker[Entry(t)] /\ data[Entry(t)] # "absent"

\* C2: after an EnsureSnapshot(id) that returned successfully, a following
\* EnsureSnapshot(id) issues no HTTP request (no latest-resolution GET, no
\* archive GET) and returns the same data/ path.
C2_SecondCallNoNetwork ==
    \A t \in Goroutines :
        (pc[t] # "idle" /\ prev # NoPrev /\ prev.err = ""
            /\ prev.id = cfgBlock[t])
        => /\ reqs[t].latest = 0
           /\ reqs[t].archive = 0
           /\ pc[t] = "done" =>
                ret[t] = [err |-> "", path |-> extractedDir(prev.block)]

C4_CrashRecoveryConverges ==
    \A t \in Goroutines :
        (InCall(t) /\ env[t] = "ok")
        ~> (/\ Succeeded(t)
            /\ marker[Entry(t)]
            /\ ret[t].path = extractedDir(Entry(t)))

\* A fault-free call that followed a crash, resumed the partial archive the
\* crash left and returned successfully.
C4_Witness ==
    \E t \in Goroutines :
        /\ Succeeded(t) /\ env[t] = "ok" /\ prev.err = "crash"
        /\ fdAppend[t] /\ downloaded[t]
        /\ marker[Entry(t)]

InWritePhase(t) ==
    pc[t] \in {"dl_stat", "dl_req", "dl_switch", "dl_copy", "dl_failed",
               "mk_data", "extract", "extracting", "ex_failed", "rm_archive"}

\* C5: of two goroutines calling EnsureSnapshot for the same identifier, at
\* most one at a time is in its download, extract or archive-delete phase
\* on the entry.
C5_SingleWriter ==
    \A t, u \in Goroutines :
        (t # u /\ InWritePhase(t) /\ InWritePhase(u)) => Entry(t) # Entry(u)

\* C6: in every interleaving, once .complete exists for an entry no step
\* of any call writes into, re-extracts into or removes its data/.
C6_CompleteEntryImmutable ==
    [][\A b \in Blocks : marker[b] => data'[b] = data[b]]_vars

\* C7: a failed extraction removes data/ and keeps the fully downloaded
\* archive, and the next EnsureSnapshot for the same identifier re-extracts
\* from it without downloading any archive body.
C7_ReextractWithoutDownload ==
    \A t \in Goroutines :
        /\ (pc[t] = "done" /\ ret[t].err = "extract")
           => data[Entry(t)] = "absent" /\ archive[Entry(t)] = File(Resource)
        /\ (pc[t] # "idle" /\ prev.err = "extract" /\ prev.id = cfgBlock[t]
              /\ prev.block = Entry(t))
           => ~downloaded[t]

\* What a step of goroutine t on its way out of a failed download or a
\* failed extraction does to the entry.
C8_Step(t) ==
    LET b == Entry(t) IN
    \* downloadFile fails: nothing already on disk is taken away.
    /\ (pc[t] \in {"dl_req", "dl_switch", "dl_copy"} /\ pc'[t] = "dl_failed")
       => disk' = disk
    \* the bytes io.Copy wrote before it failed are in the file.
    /\ (pc[t] = "dl_copy" /\ pc'[t] = "dl_failed" /\ ~fdAppend[t])
       => archive[b] = File(SubSeq(Resource, 1, ArchiveSize - Len(body[t])))
    /\ (pc[t] = "dl_copy" /\ pc'[t] = "dl_failed" /\ fdAppend[t])
       => /\ archive[b].exists
          /\ archive[b].bytes \o body[t] = Resource
    \* downloadSnapshot returns the download error, leaving the entry as is.
    /\ (pc[t] = "dl_failed" /\ pc'[t] = "done")
       => /\ disk' = disk
          /\ ret'[t].err # "" /\ ret'[t].path = NoPath
          /\ ~marker'[b]
    \* downloadSnapshot returns the extraction error: data/ is gone, the
    \* archive is as downloaded.
    /\ (pc[t] = "ex_failed" /\ pc'[t] = "done")
       => /\ archive' = archive /\ archive'[b] = File(Resource)
          /\ data'[b] = "absent"
          /\ ret'[t].err # "" /\ ret'[t].path = NoPath
          /\ ~marker'[b]

C9_AtMostTwoRequests ==
    \A t \in Goroutines :
        /\ reqs[t].archive <= 2
        /\ (pc[t] = "dl_switch" /\ reqs[t].archive = 2
              /\ resp[t] = StatusRequestedRangeNotSatisfiable)
           => ~ENABLED downloadFile_RangeNotSatisfiable(t)

\* C10: the request carries Range "bytes=N-" exactly when the destination
\* file exists with size N > 0, N being its current size; otherwise it
\* carries no Range header.
C10_RangeIffPartialFile ==
    \A t \in Goroutines :
        pc[t] = "dl_switch"
        => rangeSent[t] =
             IF archive[Entry(t)].exists /\ Len(archive[Entry(t)].bytes) > 0
               THEN Len(archive[Entry(t)].bytes)
               ELSE NoRange

\* Requests of both kinds: one resuming a one-byte partial file, and a
\* plain one after the file was removed on 416.
C10_Witness ==
    \E t \in Goroutines :
        /\ pc[t] = "dl_switch" /\ rangeSent[t] = NoRange
        /\ reqs[t].archive = 2 /\ ~archive[Entry(t)].exists
        /\ \E b \in Blocks : b # Entry(t) /\ archive[b].exists
                             /\ Len(archive[b].bytes) = 1

\* C11: a re-run of downloadFile that succeeds after an earlier download
\* was interrupted at any prefix length k leaves the file byte-for-byte
\* equal to the resource: on 206 the body is appended to the k bytes on
\* disk, on 200 the file is rewritten from byte 0 with the full body.
C11_ResumeYieldsResource ==
    \A t \in Goroutines :
        LET f == archive[Entry(t)] IN
        /\ pc[t] = "mk_data" => f = File(Resource)
        /\ (pc[t] = "dl_copy" /\ fdAppend[t])
           => /\ f.exists
              /\ Len(f.bytes) >= existingSize[t]
              /\ f.bytes \o body[t] = Resource
        /\ (pc[t] = "dl_copy" /\ ~fdAppend[t])
           => f = File(SubSeq(Resource, 1, ArchiveSize - Len(body[t])))

\* downloadFile returned nil after it resumed, on 206, the one byte that a
\* download interrupted in the call before had left.
C11_Witness ==
    \E t \in Goroutines :
        /\ pc[t] = "mk_data" /\ fdAppend[t] /\ existingSize[t] = 1
        /\ prev.err = "download" /\ prev.block = Entry(t)
        /\ archive[Entry(t)] = File(Resource)

\* What goroutine t does with a response whose status is none of 200, 206
\* and 416: from the request to the return of the error.
C12_Step(t) ==
    LET other == resp'[t] \notin {StatusOK, StatusPartialContent,
                                  StatusRequestedRangeNotSatisfiable} IN
    \* the request itself touches no file
    /\ (pc[t] = "dl_req" /\ pc'[t] = "dl_switch" /\ other) => disk' = disk
    \* the switch takes the default branch: an error, no file operation
    /\ (pc[t] = "dl_switch" /\ resp[t] = resp'[t] /\ other
          /\ pc'[t] \notin {"dl_switch", "idle"})
       => pc'[t] = "dl_failed" /\ disk' = disk
    \* the error is returned to the caller of EnsureSnapshot
    /\ (pc[t] = "dl_failed" /\ resp[t] = resp'[t] /\ other
          /\ pc'[t] \notin {"dl_failed", "idle"})
       => /\ pc'[t] = "done" /\ ret'[t].err = "download"
          /\ disk' = disk

\* C12: for any response status other than 200, 206 and 416, downloadFile
\* returns an error without creating, truncating, appending to or deleting
\* the destination file.
C12_OtherStatusLeavesFile ==
    [][\A t \in Goroutines : C12_Step(t)]_vars

\* A call that returned the download error after a status of the default
\* branch, with the one-byte partial file of an earlier attempt still on
\* disk.
C12_Witness ==
    \E t \in Goroutines :
        /\ pc[t] = "done" /\ ret[t].err = "download"
        /\ resp[t] \in OtherStatuses /\ rangeSent[t] = 1
        /\ archive[Entry(t)] = File(SubSeq(Resource, 1, 1))

\* The states of C13: who queries the latest endpoint, and the call for
\* the explicit block B that follows a successful call for "latest" which
\* resolved to B.
C13_State ==
    \A t \in Goroutines :
        /\ reqs[t].latest > 0 => cfgBlock[t] = "latest"
        /\ (pc[t] \notin {"idle", "resolve"} /\ cfgBlock[t] = "latest")
           => reqs[t].latest = 1
        /\ (pc[t] # "idle" /\ prev.id = "latest" /\ prev.err = ""
              /\ cfgBlock[t] = prev.block)
           => /\ reqs[t].latest = 0
              /\ reqs[t].archive = 0
              /\ pc[t] = "done" =>
                   ret[t] = [err |-> "", path |-> extractedDir(prev.block)]

\* The steps of C13: a failed resolution returns an error and leaves the
\* disk as it was.
C13_Step ==
    \A t \in Goroutines :
        (pc[t] = "resolve" /\ pc'[t] = "done")
        => /\ ret'[t].err = "resolve" /\ ret'[t].path = NoPath
           /\ disk' = disk

\* C13: the latest endpoint is queried only for the block "latest" (or
\* empty); after a successful EnsureSnapshot with "latest" that resolved to
\* B, EnsureSnapshot with the explicit block B is a cache hit returning the
\* same path with no HTTP request; a failed resolution returns an error and
\* creates nothing on disk.
C13_LatestThenExplicitHit ==
    []C13_State /\ [][C13_Step]_vars

\* The entry directories computed so far for the two identifiers.
C14_Dirs ==
    {nEnsure[i] : i \in DOMAIN nEnsure} \cup {nCached[i] : i \in DOMAIN nCached}

\* C14: identifier normalisation (lowercase network and client, nametag
\* after the first "_" stripped, go-ethereum mapped to geth, empty block to
\* "latest") is idempotent, and two identifiers that are equal after
\* normalisation are mapped by EnsureSnapshot and GetCachedSnapshotPath to
\* the same entry directory.
C14_NormalizationIsCacheKey ==
    nIds # <<>> =>
        /\ \A i \in 1..2 :
              LET n == EnsureSnapshot_Normalize(nIds[i]) IN
              /\ EnsureSnapshot_Normalize(n) = n
              /\ GetCachedSnapshotPath_Normalize(nIds[i]) = n
              /\ GetCachedSnapshotPath_Normalize(n) = n
        /\ nEnsure # <<>> =>
              \A i \in 1..2 :
                  nEnsure[i] = EnsureSnapshot_snapshotDir(nIds[i], nLatest)
        /\ nCached # <<>> =>
              \A i \in 1..2 :
                  nCached[i] = GetCachedSnapshotPath_entryDir(nIds[i])
        /\ EnsureSnapshot_Normalize(nIds[1]) = EnsureSnapshot_Normalize(nIds[2])
           => \A d1, d2 \in C14_Dirs : d1 = d2

\* The call of goroutine t has returned (the caller has not yet taken the
\* result).
MDone(t, op) == mpc[t] = "done" /\ mcall[t].op = op

\* C15: if the process crashes at any point during or after CreateOverlay
\* (also between the mount and the write of state.json, or after a failed
\* write of it), then RecoverOrphanedMounts, run after the restart in an
\* environment without faults, leaves no overlay of the crashed process
\* mounted and no overlay directory of it on disk.
C15_RecoveryLeavesNoOrphans ==
    \A t \in Goroutines :
        (MDone(t, "RecoverOrphanedMounts") /\ mcall[t].first
            /\ menv[t] = "ok")
        => \A i \in OverlayIDs : mountTable[i] = 0 /\ ~overlayDirs[i]

\* C16: at the return of every registry-changing operation (CreateOverlay,
\* CleanupOverlay, CleanupAll) state.json holds exactly the registry, and
\* it is absent exactly when the registry is empty, also when a write of
\* state.json failed.
C16_StateFileIsRegistry ==
    \A t \in Goroutines :
        (/\ ~crashed
         /\ \/ MDone(t, "CreateOverlay")
            \/ MDone(t, "CleanupOverlay")
            \/ MDone(t, "CleanupAll"))
        => stateFile = IF Registered(overlays) = {}
                         THEN NoState
                         ELSE StateOf(overlays)

\* No call is running in the manager.
MQuiet == \A t \in Goroutines : mpc[t] \in {"idle", "done"}

\* C17: after any sequence of CreateOverlay, CleanupOverlay and CleanupAll
\* calls (of one process), every overlay that is still mounted on the
\* host has an entry in the registry, also after a CleanupAll in which the
\* unmount of some overlay failed.
C17_MountedImpliesRegistered ==
    (MQuiet /\ ~crashed)
    => \A i \in OverlayIDs :
          mountTable[i] > 0 => \E c \in ContainerIDs : overlays[c] = i

C18_Errors ==
    {"ErrOverlayExists", "ErrSnapshotNotFound", "ErrSnapshotNotDirectory"}

\* The step of CreateOverlay that checks the registry and the snapshot
\* path, taken by goroutine t.
C18_Step(t) ==
    LET c == mcall[t].containerID
        kind == lowerDirs[mcall[t].snapshotPath]
        err == mret'[t].err
        rejected == /\ mpc'[t] = "done"
                    /\ mret'[t].mount = NoMount
                    /\ host' = host /\ overlays' = overlays
                    /\ mount'[t] = NoMount
    IN  (mpc[t] = "co_check" /\ mpc'[t] \notin {"co_check", "idle"})
        => /\ overlays[c] # NoMount
              => rejected /\ err = "ErrOverlayExists"
           /\ (overlays[c] = NoMount /\ kind = "absent")
              => rejected /\ err = "ErrSnapshotNotFound"
           /\ (overlays[c] = NoMount /\ kind = "file")
              => /\ rejected
                 /\ \/ err = "ErrSnapshotNotDirectory"
                    \/ MFaulty(t) /\ err = "stat"

\* C18: CreateOverlay for a registered container id returns
\* ErrOverlayExists, and with a snapshot path that does not exist or is not
\* a directory ErrSnapshotNotFound or ErrSnapshotNotDirectory; in all three
\* cases the registry, state.json and the overlay root are unchanged and no
\* mount is attempted.
C18_RejectedCreateChangesNothing ==
    /\ [][\A t \in Goroutines : C18_Step(t)]_vars
    /\ [](\A t \in Goroutines :
            (MDone(t, "CreateOverlay") /\ mret[t].err \in C18_Errors)
            => mount[t] = NoMount)

\* A CreateOverlay rejected as a duplicate while the container's overlay is
\* mounted and recorded in state.json.
C18_Witness ==
    \E t \in Goroutines :
        /\ MDone(t, "CreateOverlay") /\ mret[t].err = "ErrOverlayExists"
        /\ overlays[mcall[t].containerID] # NoMount
        /\ mountTable[overlays[mcall[t].containerID]] > 0
        /\ stateFile = StateOf(overlays)

\* The step of CreateOverlay in which os.MkdirAll or mountOverlay fails,
\* taken by goroutine t.
C19_Step(t) ==
    LET c == mcall[t].containerID
        id == mount[t]
    IN  (mpc[t] \in {"co_mkdir", "co_mount"} /\ mpc'[t] = "done")
        => /\ mret'[t].err # "" /\ mret'[t].mount = NoMount
           /\ mpc[t] = "co_mount" => mret'[t].err \in MountErrors
           /\ ~overlayDirs'[id]
           /\ overlays' = overlays /\ overlays'[c] = NoMount
           /\ stateFile' = stateFile
           /\ mu' = 0

\* C19: if directory creation or the mount fails inside CreateOverlay, the
\* tree {overlay_root}/{id} is removed, the registry gets no entry,
\* state.json is not changed and, for the mount, the mount error is
\* returned; the container id stays free for a later CreateOverlay.
C19_FailedCreateLeavesNothing ==
    [][~crashed => \A t \in Goroutines : C19_Step(t)]_vars

\* C19 without the calls whose overlay id is the id of a mounted overlay.
C19_ExceptSharedID ==
    [][\A t \in Goroutines :
          (mount[t] # NoMount /\ mountTable[mount[t]] > 0) \/ C19_Step(t)]_vars

\* The return of CleanupOverlay with nil for a registered container, by
\* goroutine t.
C20_Step(t) ==
    LET c == mcall[t].containerID
    IN  (/\ mpc[t] = "cm_done" /\ mcall[t].op = "CleanupOverlay"
         /\ mpc'[t] = "done" /\ mret'[t].err = "")
        => /\ overlays[c] = mount[t] /\ overlays'[c] = NoMount
           /\ mountTable'[mount[t]] = 0
           /\ ~overlayDirs'[mount[t]]

\* C20: whenever CleanupOverlay(c) returns success for a registered
\* container c, the registry has no entry for c (GetOverlay(c) reports not
\* present), nothing is mounted on the overlay's merged directory and the
\* tree {overlay_root}/{id} does not exist; this lasts until the next call.
C20_CleanupRemovesEverything ==
    /\ [][\A t \in Goroutines : C20_Step(t)]_vars
    /\ [](\A t \in Goroutines :
            (/\ MDone(t, "CleanupOverlay") /\ mret[t].err = ""
             /\ mount[t] # NoMount)
            => /\ overlays[mcall[t].containerID] = NoMount
               /\ mountTable[mount[t]] = 0
               /\ ~overlayDirs[mount[t]])

\* CleanupOverlay has returned nil for a container that was registered,
\* while the overlay of another container is still mounted.
C20_Witness ==
    \E t \in Goroutines :
        /\ MDone(t, "CleanupOverlay") /\ mret[t].err = ""
        /\ mount[t] # NoMount
        /\ overlays[mcall[t].containerID] = NoMount
        /\ \E d \in ContainerIDs :
              overlays[d] # NoMount /\ mountTable[overlays[d]] > 0

\* A step of CleanupOverlay for a container id that is not registered, by
\* goroutine t: the call itself and the lookup.
C21_Step(t) ==
    /\ (mpc[t] = "idle" /\ mpc'[t] = "cl_lookup")
       => host' = host /\ overlays' = overlays
    /\ (mpc[t] = "cl_lookup" /\ overlays[mcall[t].containerID] = NoMount
        /\ mpc'[t] # "idle")
       => /\ mpc'[t] = "done" /\ mret'[t] = [err |-> "", mount |-> NoMount]
          /\ host' = host /\ overlays' = overlays
          /\ mu' = 0

\* C21: CleanupOverlay for a container id that is not registered (never
\* created, or already cleaned up) returns nil and changes neither the
\* registry, nor state.json, nor any directory or mount.
C21_CleanupIsIdempotent ==
    [][\A t \in Goroutines : C21_Step(t)]_vars

\* CleanupOverlay has returned nil for an unregistered container id while
\* another container's overlay is mounted and recorded in state.json.
C21_Witness ==
    \E t \in Goroutines :
        /\ MDone(t, "CleanupOverlay") /\ mret[t].err = ""
        /\ mount[t] = NoMount
        /\ overlays[mcall[t].containerID] = NoMount
        /\ stateFile = StateOf(overlays)
        /\ \E d \in ContainerIDs :
              overlays[d] # NoMount /\ mountTable[overlays[d]] > 0

\* The last step of the escalation fails, and CleanupOverlay returns the
\* error of cleanupMount, by goroutine t.
C22_Step(t) ==
    /\ (mpc[t] = "cm_force" /\ mpc'[t] = "cm_done")
       => merr'[t].cleanup = "ErrUnmountFailed" /\ mountTable' = mountTable
    /\ (/\ mpc[t] = "cm_done" /\ mcall[t].op = "CleanupOverlay"
        /\ merr[t].cleanup # "" /\ mpc'[t] = "done")
       => /\ mret'[t].err = merr[t].cleanup
          /\ overlays[mcall[t].containerID] = mount[t]
          /\ overlays' = overlays
          /\ stateFile' = stateFile

\* The entry of a container whose overlay is mounted leaves the registry
\* only in a step after which the overlay is not mounted.
C22_Retained(c) ==
    (overlays[c] # NoMount /\ mountTable[overlays[c]] > 0
     /\ overlays'[c] = NoMount)
    => mountTable'[overlays[c]] = 0

\* C22: if the unmount fails after the full escalation, CleanupOverlay
\* returns ErrUnmountFailed and leaves the entry in the registry and
\* state.json as it is; while the process lives, the entry stays (so that
\* CreateOverlay returns ErrOverlayExists and CleanupOverlay retries) until
\* a cleanup has unmounted the overlay.
C22_FailedUnmountKeepsEntry ==
    [][~crashed' => /\ \A t \in Goroutines : C22_Step(t)
                    /\ \A c \in ContainerIDs : C22_Retained(c)]_vars

\* C22 without the steps of CleanupAll.
C22_ExceptCleanupAll ==
    [][(~crashed' /\ \A t \in Goroutines : mcall[t].op # "CleanupAll")
       => /\ \A t \in Goroutines : C22_Step(t)
          /\ \A c \in ContainerIDs : C22_Retained(c)]_vars

\* The return of RecoverOrphanedMounts with nil, by goroutine t; rec are
\* the overlays state.json recorded.
C23_Returns(t) ==
    /\ mpc[t] \in {"ro_read", "ro_loop"} /\ mpc'[t] = "done"
    /\ mret'[t].err = ""

C23_StateFileGone(t) == C23_Returns(t) => stateFile' = NoState

C23_RegistryEmpty(t) == C23_Returns(t) => Registered(overlays') = {}

C23_TreesGone(t) ==
    C23_Returns(t)
    => \A c \in Registered(stateFile.mounts) :
          ~overlayDirs'[stateFile.mounts[c]]

\* C23: after RecoverOrphanedMounts returns, state.json does not exist, the
\* registry is empty and the directory tree of every overlay that state.json
\* recorded is removed, also when the cleanup of an entry fails and whatever
\* the registry held.
C23_RecoveryCleansRecorded ==
    [][\A t \in Goroutines :
          C23_StateFileGone(t) /\ C23_RegistryEmpty(t) /\ C23_TreesGone(t)]_vars

\* C23, state.json only.
C23_OnlyStateFile == [][\A t \in Goroutines : C23_StateFileGone(t)]_vars

\* C23, the directory trees only, in runs in which the manager is used as
\* documented: RecoverOrphanedMounts as the first call of a process.
C23_OnlyTreesAtStart ==
    [][\A t \in Goroutines : mcall[t].first => C23_TreesGone(t)]_vars

\* Goroutine t runs CreateOverlay, with a snapshot directory and without
\* faults, as the next call after the overlay of the same container was
\* given up (by a CleanupOverlay that returned nil, or by the
\* RecoverOrphanedMounts of the restarted process).
C24_Reenters(t) ==
    /\ mcall[t].op = "CreateOverlay" /\ mcall[t].after
    /\ menv[t] = "ok"
    /\ lowerDirs[mcall[t].snapshotPath] = "dir"
    /\ mpc'[t] # mpc[t]

\* Such a call goes through every step and returns a registered mount;
\* reused is TRUE to leave aside the calls whose overlay id names a tree
\* that exists already.
C24_Step(t, reused) ==
    C24_Reenters(t)
    => /\ mpc[t] = "co_check" => mpc'[t] = "co_id"
       /\ mpc[t] = "co_id" => mpc'[t] = "co_mkdir"
       /\ mpc[t] = "co_mkdir"
          => \/ reused /\ (overlayDirs[mount[t]] \/ mountTable[mount[t]] > 0)
             \/ /\ ~overlayDirs[mount[t]] /\ mountTable[mount[t]] = 0
                /\ mpc'[t] = "co_mount"
       /\ mpc[t] = "co_mount"
          => \/ reused /\ mountTable[mount[t]] > 0
             \/ mpc'[t] = "co_register" /\ mountTable'[mount[t]] = 1
       /\ mpc[t] = "co_register"
          => \/ reused /\ mountTable[mount[t]] > 1
             \/ /\ mpc'[t] = "done"
                /\ mret'[t] = [err |-> "", mount |-> mount[t]]
                /\ overlays'[mcall[t].containerID] = mount[t]
                /\ mountTable[mount[t]] = 1 /\ overlayDirs[mount[t]]

\* C24: per container id the lifecycle is re-enterable: after a crash with
\* the overlay recorded in state.json and RecoverOrphanedMounts in the
\* restarted process, and after a CleanupOverlay that returned nil,
\* CreateOverlay for the same container id succeeds and yields a new mount
\* whose directory tree did not exist before.
C24_LifecycleReenterable ==
    [][\A t \in Goroutines : C24_Step(t, FALSE)]_vars

\* C24 without the calls whose overlay id names an existing tree.
C24_ExceptReusedID ==
    [][\A t \in Goroutines : C24_Step(t, TRUE)]_vars

\* Both cases of C24 happen: a CreateOverlay has returned a mount after a
\* CleanupOverlay, and after the recovery of a restarted process.
C24_ReachedAfterCleanup ==
    \E t \in Goroutines :
        /\ MDone(t, "CreateOverlay") /\ mcall[t].after /\ mret[t].err = ""
        /\ ~crashed

C24_ReachedAfterRecovery ==
    \E t \in Goroutines :
        /\ MDone(t, "CreateOverlay") /\ mcall[t].after /\ mret[t].err = ""
        /\ crashed /\ Registered(overlays) = {mcall[t].containerID}

\* A step of CleanupAll by goroutine t.
C25_Step(t) ==
    (mcall[t].op = "CleanupAll" /\ mpc'[t] \notin {mpc[t], "idle"})
    => \* the range takes up a registered mount, all others are still to do
       /\ (mpc[t] = "ca_loop" /\ mpc'[t] # "done")
          => \E c \in Registered(overlays) :
                /\ mount'[t] = overlays[c] /\ mpc'[t] = "cm_check"
                /\ mtodo'[t] = Registered(overlays) \ {c}
       \* after a cleanup, failed or not, the next mount is taken up
       /\ (mpc[t] = "cm_done" /\ mtodo[t] # {})
          => \E c \in mtodo[t] :
                /\ mount'[t] = overlays[c] /\ mpc'[t] = "cm_check"
                /\ mtodo'[t] = mtodo[t] \ {c}
       \* the error kept is empty as long as no cleanup failed, and is the
       \* error of a cleanup otherwise
       /\ mpc[t] = "cm_done"
          => /\ merr'[t].last = "" <=> (merr[t].last = "" /\ merr[t].cleanup = "")
             /\ merr'[t].last \in {merr[t].last, merr[t].cleanup}
       \* the return: nothing is left to do, the error kept is returned
       /\ mpc'[t] = "done"
          => /\ mtodo[t] = {}
             /\ mret'[t].err = merr[t].last
             /\ Registered(overlays') = {}
             /\ stateFile' = NoState

C26_LowerDirIsExternal ==
    [][/\ lowerDirs' = lowerDirs
       /\ \A i \in OverlayIDs :
             (overlayDirs[i] /\ ~overlayDirs'[i])
             => \E t \in Goroutines :
                   /\ mount[t] = i
                   /\ mpc[t] \in {"co_mkdir", "co_mount", "cm_dirs"}]_vars

\* A failed CreateOverlay has removed the tree it made while the tree of
\* another overlay and the snapshot directory are in place.
C26_Witness ==
    \E t \in Goroutines :
        /\ MDone(t, "CreateOverlay") /\ mret[t].err \in MountErrors
        /\ mount[t] # NoMount /\ ~overlayDirs[mount[t]]
        /\ \E i \in OverlayIDs : overlayDirs[i] /\ mountTable[i] > 0
        /\ lowerDirs[mcall[t].snapshotPath] = "dir"

\* A step of cleanupMount by goroutine t; unmounted says that the step took
\* a mount off the merged directory.
C27_Step(t) ==
    LET id == mount[t]
        unmounted == mountTable'[id] = mountTable[id] - 1
        failed == mountTable' = mountTable
    IN  (mpc[t] \in {"cm_check", "cm_unmount", "cm_lazy", "cm_kill", "cm_force"}
         /\ mpc'[t] \notin {mpc[t], "idle"})
        => /\ mpc[t] = "cm_check"
              => /\ mpc'[t] \in {"cm_unmount", "cm_dirs"} /\ failed
                 /\ mountTable[id] = 0 => mpc'[t] = "cm_dirs"
                 /\ mpc'[t] = "cm_dirs" => mountTable[id] = 0 \/ MFaulty(t)
           /\ mpc[t] = "cm_unmount"
              => \/ unmounted /\ mpc'[t] = "cm_dirs"
                 \/ failed /\ mpc'[t] = "cm_lazy"
           /\ mpc[t] = "cm_lazy"
              => \/ unmounted /\ mpc'[t] = "cm_dirs"
                 \/ failed /\ mpc'[t] = "cm_kill"
           /\ mpc[t] = "cm_kill"
              => failed /\ mpc'[t] = "cm_force"
           /\ mpc[t] = "cm_force"
              => \/ unmounted /\ mpc'[t] = "cm_dirs"
                 \/ /\ failed /\ mpc'[t] = "cm_done"
                    /\ merr'[t].cleanup = "ErrUnmountFailed"
           /\ mpc'[t] # "cm_done" => merr'[t] = merr[t]
           /\ overlayDirs' = overlayDirs

\* C27: the unmount escalation runs in the order mount-table check, normal
\* unmount, lazy unmount, kill processes, force-and-lazy unmount; a step
\* is taken only after every earlier unmount failed, cleanupDirs follows
\* the first unmount that succeeds (or the check, if nothing is mounted),
\* killProcesses never ends the ladder, and ErrUnmountFailed comes only
\* from a failed force-and-lazy unmount.
C27_EscalationOrder ==
    /\ [][\A t \in Goroutines : C27_Step(t)]_vars
    /\ [](\A t \in Goroutines :
            (mpc[t] = "cm_done" /\ merr[t].cleanup = "ErrUnmountFailed")
            => mount[t] # NoMount /\ mountTable[mount[t]] > 0)

\* The whole ladder has run and failed: cleanupMount ends with
\* ErrUnmountFailed, the overlay still mounted and its tree in place.
C27_Witness ==
    \E t \in Goroutines :
        /\ mpc[t] = "cm_done" /\ merr[t].cleanup = "ErrUnmountFailed"
        /\ mountTable[mount[t]] > 0 /\ overlayDirs[mount[t]]

\* RecoverOrphanedMounts reads state.json, by goroutine t.
C28_Step(t) ==
    LET unchanged == /\ lowerDirs' = lowerDirs /\ overlayDirs' = overlayDirs
                     /\ mountTable' = mountTable /\ overlays' = overlays
        returns(e) == mpc'[t] = "done" /\ mret'[t] = [err |-> e, mount |-> NoMount]
    IN  (mpc[t] = "ro_read" /\ mpc'[t] \notin {"ro_read", "idle"})
        => /\ stateFile.kind = "absent"
              => returns("") /\ unchanged /\ stateFile' = stateFile
           /\ stateFile.kind = "malformed"
              => \/ returns("") /\ unchanged /\ stateFile' = NoState
                 \/ /\ MFaulty(t)
                    /\ returns("read") /\ unchanged /\ stateFile' = stateFile

C29_TwoCreates(t, u, longOnly, fresh) ==
    (/\ t # u
     /\ MDone(t, "CreateOverlay") /\ MDone(u, "CreateOverlay")
     /\ mcall[t].containerID = mcall[u].containerID
     /\ {mret[t].err, mret[u].err} # {"ErrOverlayExists"}
     /\ mcall[t].conc /\ mcall[u].conc
     /\ longOnly => Len(mcall[t].containerID) >= IDPrefixLen
     /\ fresh => {mret[t].err, mret[u].err} \cap MountErrors = {})
    => {mret[t].err, mret[u].err} = {"", "ErrOverlayExists"}

\* The calls exclude each other: a goroutine inside an operation holds
\* m.mu, and no other goroutine is inside one.
C29_Holds(t) == mpc[t] \notin {"idle", "done", "co_lock"}

C29_Exclusive ==
    \A t \in Goroutines :
        C29_Holds(t) => mu = t /\ \A u \in Goroutines \ {t} : ~C29_Holds(u)

\* An entry of the registry is never replaced by another one, an entry is
\* made only for an overlay that is mounted, and GetOverlay answers only
\* while no operation on the registry is under way.
C29_Step ==
    /\ \A c \in ContainerIDs :
          /\ (overlays[c] # NoMount /\ overlays'[c] # overlays[c])
             => overlays'[c] = NoMount
          /\ (overlays[c] = NoMount /\ overlays'[c] # NoMount)
             => mountTable[overlays'[c]] > 0
    /\ \A t \in Goroutines :
          (mpc[t] = "idle" /\ mpc'[t] = "done")
          => /\ \A u \in Goroutines : ~C29_Holds(u)
             /\ mret'[t].mount = overlays[mcall'[t].containerID]

\* C29: the operations on the registry exclude each other; in every
\* interleaving of concurrent CreateOverlay, CleanupOverlay, CleanupAll and
\* GetOverlay calls there is at most one registered mount per container
\* id, two concurrent CreateOverlay calls for one container id end with
\* one success and one ErrOverlayExists, and GetOverlay returns no mount
\* whose creation or cleanup is under way.
C29_MutualExclusion ==
    /\ [](C29_Exclusive
          /\ \A t, u \in Goroutines : C29_TwoCreates(t, u, FALSE, FALSE))
    /\ [][C29_Step]_vars

\* C29 without the container ids shorter than the prefix and without the
\* calls that failed at the mount.
C29_ExceptShortOrReusedID ==
    /\ [](C29_Exclusive
          /\ \A t, u \in Goroutines : C29_TwoCreates(t, u, TRUE, TRUE))
    /\ [][C29_Step]_vars

\* Two calls of CreateOverlay for one container id have returned, one with
\* the mount and one with ErrOverlayExists.
C29_Reached ==
    \E t, u \in Goroutines :
        /\ MDone(t, "CreateOverlay") /\ MDone(u, "CreateOverlay")
        /\ mcall[t].containerID = mcall[u].containerID
        /\ mcall[t].conc /\ mcall[u].conc
        /\ mret[t].err = "" /\ mret[u].err = "ErrOverlayExists"

\* C30: every two mounts created by one manager have different ids, hence
\* disjoint directory trees, also when their container ids share the first
\* 12 characters and the clock gives the same value for both; so no step of
\* CleanupOverlay removes the directory tree of a mount registered for
\* another container.
C30_Step ==
    \A t \in Goroutines :
        (MInCall(t) /\ mcall[t].op = "CleanupOverlay")
        => \A i \in OverlayIDs :
               (overlayDirs[i] /\ ~overlayDirs'[i])
               => \A d \in Registered(overlays) \ {mcall[t].containerID} :
                      overlays[d] # i

C30_UniqueIDs ==
    /\ [](~crashed => \A c, d \in Registered(overlays) :
                          c # d => overlays[c] # overlays[d])
    /\ [][C30_Step]_vars

\* The call of goroutine t fetched: it did not return from the fast path.
C32_Fresh(t) == reqs[t].archive > 0

\* What a fresh fetch that returned successfully leaves in the entry.
C32_State(envs) ==
    \A t \in Goroutines :
        (Succeeded(t) /\ C32_Fresh(t) /\ env[t] \in envs)
        => /\ data[Entry(t)] = "full"
           /\ marker[Entry(t)]
           /\ ~archive[Entry(t)].exists

\* The order of the last steps of downloadSnapshot: the archive is removed
\* while there is no marker yet, the write of the marker touches nothing
\* else, and nothing is touched after it.
C32_Step ==
    \A t \in Goroutines :
        /\ (pc[t] = "rm_archive" /\ pc'[t] = "wr_marker")
           => ~marker[Entry(t)] /\ marker' = marker
        /\ (pc[t] = "wr_marker" /\ pc'[t] = "done")
           => <<dirs, archive, data>>' = <<dirs, archive, data>>
        /\ pc[t] = "done" => disk' = disk

\* C32: after a successful fresh fetch the entry directory holds data/ and
\* .complete and no snapshot.tar.zst; the archive is deleted before the
\* marker is written and the write of the marker is the last change
\* EnsureSnapshot makes to the file system.
C32_FreshFetchLeavesDataAndMarker ==
    []C32_State({"ok", "faulty"}) /\ [][C32_Step]_vars

\* The same with the state of the entry asked for only after calls in which
\* no operation failed.
C32_ExceptIgnoredErrors ==
    []C32_State({"ok"}) /\ [][C32_Step]_vars

\* A fault-free fresh fetch has returned.
C32_Reached ==
    \E t \in Goroutines :
        Succeeded(t) /\ C32_Fresh(t) /\ env[t] = "ok" /\ marker[Entry(t)]

\* What a step of goroutine t does once ctx was cancelled during the
\* download or during the extraction.
C33_Step(t) ==
    LET b == Entry(t) IN
    \* cancelled during the download: the archive changes only where the
    \* response received before is handled (os.Create on 200, os.Remove on
    \* 416), no byte is written after the cancellation
    /\ (env[t] = "cancelled_download" /\ archive' # archive)
       => pc[t] = "dl_switch"
    \* the failure of downloadFile and its return leave the entry as it is
    /\ (env[t] = "cancelled_download" /\ pc'[t] = "dl_failed")
       => disk' = disk
    /\ (env[t] = "cancelled_download" /\ pc[t] = "dl_failed"
          /\ pc'[t] = "done")
       => /\ disk' = disk
          /\ ret'[t].err = "download" /\ ret'[t].path = NoPath
    \* cancelled during the extraction: extractTarZst fails, data/ is
    \* removed, the archive stays as downloaded
    /\ (env[t] = "cancelled_extract" /\ pc[t] \in {"extract", "extracting"})
       => pc'[t] \in {pc[t], "ex_failed"} /\ disk' = disk
    /\ (env[t] = "cancelled_extract" /\ pc[t] = "ex_failed"
          /\ pc'[t] # "ex_failed")
       => /\ pc'[t] = "done"
          /\ ret'[t].err = "extract" /\ ret'[t].path = NoPath
          /\ data'[b] = "absent"
          /\ archive' = archive /\ archive[b] = File(Resource)

\* A call whose ctx was cancelled during the download or the extraction
\* writes no marker and returns an error.
C33_State ==
    \A t \in Goroutines :
        env[t] \in {"cancelled_download", "cancelled_extract"}
        => /\ ~marker[Entry(t)]
           /\ pc[t] = "done" => ret[t].err # "" /\ ret[t].path = NoPath

C37_Agrees(bs, envs) ==
    \A t \in Goroutines :
        (Succeeded(t) /\ cfgBlock[t] \in bs /\ env[t] \in envs)
        => GetCachedSnapshotPath(cfgBlock[t]) = ret[t].path

\* GetCachedSnapshotPath returns the empty string where there is no marker.
C37_EmptyWithoutMarker ==
    \A b \in CfgBlocks :
        LET n == IF b = "" THEN "latest" ELSE b IN
        (n \notin Blocks \/ ~marker[n]) => GetCachedSnapshotPath(b) = NoPath

\* C37: GetCachedSnapshotPath agrees with EnsureSnapshot: after
\* EnsureSnapshot(cfg) returned the path p successfully,
\* GetCachedSnapshotPath for the identifier of cfg returns p, also when the
\* block of cfg is empty or "latest"; and it returns the empty string for
\* every identifier whose entry has no .complete marker.
C37_CachedPathAgrees ==
    C37_Agrees(Blocks \cup {"latest"}, {"ok", "faulty"})
    /\ C37_EmptyWithoutMarker

\* The same for concrete blocks and calls in which no operation failed.
C37_ExceptLatestAndLostMarker ==
    C37_Agrees(Blocks, {"ok"}) /\ C37_EmptyWithoutMarker

\* A fault-free fetch of a concrete block has returned, and
\* GetCachedSnapshotPath returns its path.
C37_Reached ==
    \E t \in Goroutines :
        /\ Succeeded(t) /\ cfgBlock[t] \in Blocks /\ env[t] = "ok"
        /\ reqs[t].archive > 0
        /\ GetCachedSnapshotPath(cfgBlock[t]) = extractedDir(cfgBlock[t])

\* How CreateOverlay calls for the container ids cs that found the id
\* unregistered and the snapshot directory valid have ended: with a mount
\* or with an error, never with the panic of the id's slice expression, and
\* with m.mu released.
C35_Ends(cs) ==
    \A t \in Goroutines :
        (MDone(t, "CreateOverlay") /\ mcall[t].containerID \in cs
           /\ mcall[t].snapshotPath = "snapshot"
           /\ mret[t].err \notin {"ErrOverlayExists", "stat"})
        => /\ mret[t].err # "panic"
           /\ (mret[t].err = "") # (mret[t].mount = NoMount)
           /\ mu = 0

\* C35: for every container id that is not registered, also one shorter
\* than 12 characters, CreateOverlay with a valid snapshot directory ends
\* by returning a mount or an error; it never panics while it builds the
\* overlay id, and the registry lock is released afterwards.
C35_NoPanicOnShortID == C35_Ends(ContainerIDs)

\* The same for the container ids of 12 characters and more.
C35_ExceptShortID ==
    C35_Ends({c \in ContainerIDs : Len(c) >= IDPrefixLen})

\* CreateOverlay calls for a long id have ended both ways: one has returned
\* an error of the mount while the overlay of the call before is mounted.
C35_Reached ==
    \E t \in Goroutines :
        /\ MDone(t, "CreateOverlay") /\ mret[t].err \in MountErrors
        /\ \E c \in ContainerIDs \ {mcall[t].containerID} :
              overlays[c] # NoMount

\* state.json holds what persistState writes for the registry.
C36_Agree ==
    stateFile = IF Registered(overlays) = {} THEN NoState
                ELSE StateOf(overlays)

\* What a step of a RecoverOrphanedMounts call of goroutine t leaves of the
\* overlays registered in the manager.
C36_Step(t) ==
    (MInCall(t) /\ mcall[t].op = "RecoverOrphanedMounts")
    => /\ overlays' = overlays
       /\ \A c \in Registered(overlays) :
             /\ mountTable'[overlays[c]] >= mountTable[overlays[c]]
             /\ overlayDirs[overlays[c]] => overlayDirs'[overlays[c]]
       /\ C36_Agree => C36_Agree'

\* C36: RecoverOrphanedMounts never unmounts or deletes the overlay of a
\* container that is registered in the calling manager: invoked after
\* CreateOverlay calls of the same process, it leaves every registered
\* mount mounted and its directory tree in place, and registry and
\* state.json still agree.
C36_RecoverKeepsRegistered ==
    [][\A t \in Goroutines : C36_Step(t)]_vars

\* The same for RecoverOrphanedMounts calls made while no overlay is
\* registered.
C36_ExceptRegistered ==
    [][\A t \in Goroutines : Registered(overlays) = {} => C36_Step(t)]_vars

\* RecoverOrphanedMounts has returned in a process with an empty registry,
\* having removed a stale state.json.
C36_Reached ==
    \E t \in Goroutines :
        /\ MDone(t, "RecoverOrphanedMounts") /\ mret[t].err = ""
        /\ Registered(overlays) = {} /\ stateFile = NoState
        /\ \E i \in OverlayIDs : overlayDirs[i]

\* What one step does to setup.config.Overlays when it applies the option
\* of WithClientSnapshot.
C34_Step ==
    (setupOverlays' # setupOverlays /\ applied' = "WithClientSnapshot")
    => LET snap == clientDef.Snapshot
           n == Len(setupOverlays)
       IN  /\ Len(setupOverlays') = n + 1
           /\ SubSeq(setupOverlays', 1, n) = setupOverlays
           /\ setupOverlays'[n + 1] =
                 [SnapshotPath |-> "",
                  ContainerPath |-> IF snap.ContainerPath = "" THEN "/data"
                                    ELSE snap.ContainerPath,
                  Network |-> snap.Network, Client |-> clientDef.Name,
                  BlockNumber |-> snap.BlockNumber, URL |-> snap.URL]

\* WithClientSnapshot returns an option exactly for a definition whose
\* snapshot config is there and names a network.
C34_State ==
    startOption # NoOption
    => (startOption # NilOption
        <=> (clientDef.Snapshot # NilSnapshot
             /\ clientDef.Snapshot.Network # ""))

\* C34: WithClientSnapshot yields a start option only for a client
\* definition whose snapshot config has a non-empty network, nil otherwise;
\* applying it appends exactly one overlay request with the definition's
\* network, client name, block and URL, at the configured container path
\* or at "/data" when none is configured, and leaves the requests added
\* before unchanged and in order.
C34_ClientSnapshotOption ==
    []C34_State /\ [][C34_Step]_vars

\* The option of a definition without a container path was applied after
\* two other overlay requests.
C34_Witness ==
    /\ applied = "WithClientSnapshot" /\ Len(setupOverlays) = 3
    /\ setupOverlays[1].SnapshotPath # "" /\ setupOverlays[2].SnapshotPath # ""
    /\ setupOverlays[3].ContainerPath = "/data"
    /\ clientDef.Snapshot.ContainerPath = ""

\* The timings of the first n calls of the payload, in list order.
C39_TimingsOf(n) == [j \in 1..n |-> CallTiming(j - 1, wPayload.Calls[j])]

\* C39: ExecutePayloads hands the calls of the payload to ExecutePayload
\* strictly in list order and makes no call after one that failed; a
\* newPayload answered with a status other than VALID is a failed call.
\* When a call failed it returns the timings of exactly the calls before
\* it, in order, and an error naming the failing index; when none failed
\* every call was made and it returns a timing for each, and a nil error.
C39_InOrderUntilFirstFailure ==
    /\ \A j \in 1..Len(sent) :
         /\ sent[j].index = j - 1
         /\ sent[j].err # "" => j = Len(sent) /\ epc # "x_loop"
         /\ (/\ IsNewPayload(wPayload.Calls[j])
             /\ sent[j].response \in {"INVALID", "SYNCING"})
            => sent[j].err # ""
    /\ xRet.returned =>
         LET k == Len(sent)
         IN  IF k > 0 /\ sent[k].err # ""
               THEN /\ xRet.err =
                         CallErr(k - 1, wPayload.Calls[k].Method, sent[k].err)
                    /\ xRet.timings = C39_TimingsOf(k - 1)
               ELSE /\ k = Len(wPayload.Calls)
                    /\ xRet.err = NilErr
                    /\ xRet.timings = C39_TimingsOf(k)

\* ExecutePayloads, called by the simulator, made two calls that succeeded
\* and a third, a newPayload the engine did not answer with VALID, and
\* returned two timings and the error of index 2.
C39_Witness ==
    /\ entered = "ExecutePayloads"
    /\ xRet.returned
    /\ Len(sent) = 3
    /\ sent[3].response = "INVALID"
    /\ Len(xRet.timings) = 2
    /\ xRet.err # NilErr

\* C38, in a state: a skipped warmup makes no call and reports
\* Executed = false, Iterations = 0.  Otherwise Execute calls
\* ExecutePayloads at most cfg.Iterations times and, once it has returned,
\* Iterations counts every call it made, Errors holds one error for each
\* call that failed, it ran all cfg.Iterations iterations unless a select
\* found the context done, and Executed = true with a nil error exactly
\* when it ran them all and no select found the context done.
C38_State ==
    entered = "Execute" =>
      IF Skipped(wCfg, wPayload)
        THEN /\ nExec = 0
             /\ sent = <<>>
             /\ wRet.returned =>
                  ~wResult.Executed /\ wResult.Iterations = 0
        ELSE /\ nExec <= wCfg.Iterations
             /\ wRet.returned =>
                  /\ wResult.Iterations = nExec
                  /\ Len(wResult.IterationDurations) = nExec
                  /\ wResult.Errors = failedIters
                  /\ sawDone \/ nExec = wCfg.Iterations
                  /\ (wResult.Executed /\ wRet.err = "")
                     <=> (nExec = wCfg.Iterations /\ ~sawDone)

\* C38, in a step: after an iteration whose ExecutePayloads failed Execute
\* goes on to the next iteration and does not return.
C38_Step ==
    (epc = "w_after" /\ xRet.err # NilErr /\ epc' # epc)
    => epc' = "w_loop" /\ wIter' = wIter + 1 /\ ~wRet'.returned

\* C38: Warmup.Execute runs at most cfg.Iterations iterations, goes on
\* after a failed one, records one error per failed iteration, counts
\* every attempted iteration, and reports Executed = true with a nil error
\* exactly when it ran through all iterations without finding the context
\* done before one; disabled or without calls it performs no call and
\* reports Executed = false, Iterations = 0.
C38_WarmupIterations == []C38_State /\ [][C38_Step]_vars

\* An enabled warmup of two iterations returned: the first iteration
\* failed, the second was run and succeeded.
C38_Witness ==
    /\ entered = "Execute"
    /\ wRet.returned
    /\ wCfg.Iterations = 2
    /\ failedIters = <<1>>
    /\ wResult.Errors = <<1>>
    /\ wResult.Iterations = 2
    /\ wResult.Executed

\* The call returned the cached data/ path of its entry without an HTTP
\* request.
C31_Hit ==
    /\ hsRet.err = ""
    /\ hsRet.path = hsExtractedDir(hsBlock)
    /\ hsReqs = NoHsReqs

\* C31: an EnsureSnapshotAt for an entry that an earlier call fetched and
\* extracted successfully returns the cached data/ path without
\* downloading, whether or not metadata.json exists.
C31_MetadataNeverBlocksHit == (hsPc = "done" /\ hsWas) => C31_Hit

\* With a metadata.json in the entry, corrupt or not, the cache test of
\* such a call is a hit.
C31_Step ==
    (hsPc = "stat" /\ hsWas /\ hsMetadata[hsBlock] # "absent")
    => (hsPc' = "done" /\ hsRet'.err = "" /\ UNCHANGED <<hsDisk, hsReqs>>)
C31_ExceptMissing == [][C31_Step]_vars

\* A call for a fetched entry whose metadata.json is corrupt was a hit.
C31_Reached ==
    /\ hsPc = "done"
    /\ hsWas
    /\ hsMetadata[hsBlock] = "corrupt"
    /\ C31_Hit

====
